---- MODULE Spec2Model ----
(***************************************************************************)
(* Model of the SAR rule engine (src/rules/suspicious_rules.py) and of the *)
(* analyst case-creation flow that calls it (src/app.py).                  *)
(*                                                                         *)
(* Text that the code searches or parses (narratives, activity dates) is   *)
(* a sequence of one-character strings, so that lower(), the `in` test and *)
(* strptime are computed and not assumed.  Text that the code only tests   *)
(* for emptiness or copies (names, rule labels) is a plain string.         *)
(***************************************************************************)
EXTENDS Integers, Sequences, FiniteSets, TLC

(* ---------------------------------------------------------------------- *)
(* Bounds of the model                                                     *)
(* ---------------------------------------------------------------------- *)
MaxTx == 1          \* transactions per case when every field varies
MaxStructTx == 5    \* transactions per case when only the transactions vary
MaxCases == 1       \* SAR cases the analyst flow may store

(* ---------------------------------------------------------------------- *)
(* Characters and strings                                                  *)
(* ---------------------------------------------------------------------- *)
UpperLetters ==
  <<"A","B","C","D","E","F","G","H","I","J","K","L","M",
    "N","O","P","Q","R","S","T","U","V","W","X","Y","Z">>

LowerLetters ==
  <<"a","b","c","d","e","f","g","h","i","j","k","l","m",
    "n","o","p","q","r","s","t","u","v","w","x","y","z">>

Digits == <<"0","1","2","3","4","5","6","7","8","9">>

\* the lower-case letter of each upper-case letter
ToLower ==
  [c \in {UpperLetters[i] : i \in 1..Len(UpperLetters)} |->
     LowerLetters[CHOOSE i \in 1..Len(UpperLetters) : UpperLetters[i] = c]]

\* str.lower() on one character
LowerChar(c) == IF c \in DOMAIN ToLower THEN ToLower[c] ELSE c

\* str.lower()
Lower(s) == [i \in 1..Len(s) |-> LowerChar(s[i])]

\* word in text  (Python substring test); t and w hold the two values
Contains(text, word) ==
  \E t \in {text}, w \in {word} :
    \E i \in 1..(Len(t) - Len(w) + 1) :
      \A k \in 1..Len(w) : t[i + k - 1] = w[k]

(* A narrative is the sequence text followed by `filler` full stops.  No   *)
(* word the rule engine looks for contains a full stop, so a word occurs   *)
(* in the narrative iff it occurs in text; the length counts the filler.   *)
NarrativeLen(n) == Len(n.text) + n.filler

NarrativeLower(n) == Lower(n.text)

\* bool(narrative): a non-empty string is truthy
NarrativeTruthy(n) == NarrativeLen(n) > 0

(* ---------------------------------------------------------------------- *)
(* datetime.strptime(s, "%m/%d/%Y")                                        *)
(* ---------------------------------------------------------------------- *)
IsDigit(c) == \E i \in 1..Len(Digits) : Digits[i] = c

DigitVal(c) == (CHOOSE i \in 1..Len(Digits) : Digits[i] = c) - 1

AllDigits(s) == \A i \in 1..Len(s) : IsDigit(s[i])

RECURSIVE NumVal(_)
NumVal(s) ==
  IF Len(s) = 0 THEN 0
  ELSE 10 * NumVal(SubSeq(s, 1, Len(s) - 1)) + DigitVal(s[Len(s)])

\* positions of the separator "/" in s
SlashAt(s) == {i \in 1..Len(s) : s[i] = "/"}

IsLeap(y) == (y % 4 = 0 /\ y % 100 # 0) \/ y % 400 = 0

DaysInMonth(y, m) ==
  IF m = 2 THEN (IF IsLeap(y) THEN 29 ELSE 28)
  ELSE IF m \in {4, 6, 9, 11} THEN 30 ELSE 31

\* %m : 1[0-2] | 0[1-9] | [1-9]
MonthField(f) == Len(f) \in {1, 2} /\ AllDigits(f) /\ NumVal(f) \in 1..12

\* %d : 3[01] | [12]\d | 0[1-9] | [1-9] | " "[1-9]
DayField(f) ==
  \/ Len(f) \in {1, 2} /\ AllDigits(f) /\ NumVal(f) \in 1..31
  \/ Len(f) = 2 /\ f[1] = " " /\ IsDigit(f[2]) /\ DigitVal(f[2]) >= 1

DayVal(f) == IF f[1] = " " THEN DigitVal(f[2]) ELSE NumVal(f)

\* %Y : \d\d\d\d
YearField(f) == Len(f) = 4 /\ AllDigits(f)

(* The three fields of s when it has exactly two separators. *)
DateFields(s) ==
  LET p == SlashAt(s)
      a == CHOOSE i \in p : \A j \in p : i <= j
      b == CHOOSE i \in p : \A j \in p : j <= i
  IN  <<SubSeq(s, 1, a - 1), SubSeq(s, a + 1, b - 1), SubSeq(s, b + 1, Len(s))>>

(* strptime succeeds: the string matches the format and names a real day   *)
(* (datetime years start at 1).  A value that is absent makes data[...]    *)
(* raise KeyError in the same try block.                                   *)
Parses(d) ==
  /\ d.present
  /\ Cardinality(SlashAt(d.text)) = 2
  /\ LET f == DateFields(d.text)
     IN  /\ MonthField(f[1])
         /\ DayField(f[2])
         /\ YearField(f[3])
         /\ NumVal(f[3]) >= 1
         /\ DayVal(f[2]) <= DaysInMonth(NumVal(f[3]), NumVal(f[1]))

\* the datetime strptime returns, as <<year, month, day>>
ParseDate(d) ==
  LET f == DateFields(d.text)
  IN  <<NumVal(f[3]), NumVal(f[1]), DayVal(f[2])>>

\* datetime.__lt__
DateLess(x, y) ==
  \/ x[1] < y[1]
  \/ x[1] = y[1] /\ x[2] < y[2]
  \/ x[1] = y[1] /\ x[2] = y[2] /\ x[3] < y[3]

(* ---------------------------------------------------------------------- *)
(* src/rules/suspicious_rules.py : helpers                                 *)
(* ---------------------------------------------------------------------- *)
w_guilty == <<"g","u","i","l","t","y">>
w_criminal == <<"c","r","i","m","i","n","a","l">>
w_definitely == <<"d","e","f","i","n","i","t","e","l","y">>
w_certainly == <<"c","e","r","t","a","i","n","l","y">>
w_obviously == <<"o","b","v","i","o","u","s","l","y">>
w_who == <<"w","h","o">>
w_what == <<"w","h","a","t">>
w_when == <<"w","h","e","n">>
w_where == <<"w","h","e","r","e">>
w_why == <<"w","h","y">>
w_how == <<"h","o","w">>
w_investigation == <<"i","n","v","e","s","t","i","g","a","t","i","o","n">>
w_conclusion == <<"c","o","n","c","l","u","s","i","o","n">>

PROHIBITED_WORDS ==
  <<w_guilty, w_criminal, w_definitely, w_certainly, w_obviously>>

required_sections == <<w_who, w_what, w_when, w_where, w_why, w_how>>

MinNarrativeLen == 500
FilingThresholdIdentified == 5000
FilingThresholdUnidentified == 25000
StructuringLow == 9000
StructuringHigh == 9999
HighBreakpoint == 13
MediumBreakpoint == 9

\* faulty variant: the comparison forgets to lower-case the text
contains_prohibited_language_caseSensitive(text) ==
  \E i \in 1..Len(PROHIBITED_WORDS) :
    Contains(text.text, Lower(PROHIBITED_WORDS[i]))

contains_prohibited_language(text) ==
  \E i \in 1..Len(PROHIBITED_WORDS) :
    Contains(NarrativeLower(text), Lower(PROHIBITED_WORDS[i]))

has_5w1h(narrative) ==
  LET text == NarrativeLower(narrative)
      found == Cardinality({i \in 1..Len(required_sections) :
                              Contains(text, required_sections[i])})
  IN  found = 6

has_transaction_details(transactions) == Len(transactions) >= 1

\* SelectSeq with the predicate written out, as the list comprehensions do
cash_tx(transactions) ==
  LET IsCash(t) == t.type = "cash" IN SelectSeq(transactions, IsCash)

range_tx(transactions) ==
  LET InRange(t) == StructuringLow <= t.amount /\ t.amount <= StructuringHigh
  IN  SelectSeq(cash_tx(transactions), InRange)

(* t["type"] is read for every transaction and t["amount"] for every cash  *)
(* transaction; a record without the key raises KeyError.                  *)
has_structuring_raises(transactions) ==
  \E i \in 1..Len(transactions) :
    \/ "type" \notin transactions[i].keys
    \/ transactions[i].type = "cash" /\ "amount" \notin transactions[i].keys

\* faulty variant: the ratio is taken over all transactions, not the cash ones
has_structuring_allTx(transactions) ==
  IF Len(cash_tx(transactions)) = 0 THEN FALSE
  ELSE 10 * Len(range_tx(transactions)) >= 8 * Len(transactions)

(* len(range_tx) / len(cash_tx) >= 0.8 ; the quotient of two small         *)
(* integers is correctly rounded, so it compares with the double 0.8 as    *)
(* the exact ratio compares with 8/10.                                     *)
has_structuring(transactions) ==
  IF Len(cash_tx(transactions)) = 0 THEN FALSE
  ELSE 10 * Len(range_tx(transactions)) >= 8 * Len(cash_tx(transactions))

\* faulty variant: the HIGH breakpoint is exclusive
calculate_confidence_gt(score) ==
  IF score > HighBreakpoint THEN <<"HIGH", 90>>
  ELSE IF score >= MediumBreakpoint THEN <<"MEDIUM", 75>>
  ELSE <<"LOW", 50>>

\* the confidence score is kept in hundredths: 0.9 is 90
calculate_confidence(score) ==
  IF score >= HighBreakpoint THEN <<"HIGH", 90>>
  ELSE IF score >= MediumBreakpoint THEN <<"MEDIUM", 75>>
  ELSE <<"LOW", 50>>

(* ---------------------------------------------------------------------- *)
(* src/rules/suspicious_rules.py : evaluate_rules                          *)
(* ---------------------------------------------------------------------- *)
RULE_01 == "RULE 01: Filing Mandatory (30 days)"
RULE_02 == "RULE 02: Filing Mandatory (60 days)"
\* the label of the source without its section sign
RULE_10 == "RULE 10: STRUCTURING detected (31 U.S.C. 5324)"
ERR_NAME == "Full name missing"
ERR_ACCOUNTS == "No account information provided"
ERR_DATE_ORDER == "End date before start date"
ERR_DATES == "Invalid or missing activity dates"
ERR_AMOUNT == "Invalid suspicious amount"
ERR_PROHIBITED == "Prohibited language detected"
WARN_5W1H == "Narrative missing full 5W1H elements"
WARN_LENGTH == "Narrative below 500 characters"
WARN_TX == "No transaction details provided"
WARN_INVESTIGATION == "Investigation steps not documented"
WARN_CONCLUSION == "Conclusion section missing"

(* The locals of one call: the three lists, the score, and whether an      *)
(* exception has left the function.                                        *)
Locals0 ==
  [triggered_rules |-> <<>>, errors |-> <<>>, warnings |-> <<>>,
   score |-> 0, raised |-> FALSE]

Trigger(st, rule, w) ==
  [st EXCEPT !.triggered_rules = Append(@, rule), !.score = @ + w]

Error(st, e) == [st EXCEPT !.errors = Append(@, e)]

Warn(st, w) == [st EXCEPT !.warnings = Append(@, w)]

Gain(st, w) == [st EXCEPT !.score = @ + w]

Raise(st) == [st EXCEPT !.raised = TRUE]

\* narrative = data.get("narrative", "")
NarrativeOf(data) ==
  IF data.narrative.present THEN data.narrative
  ELSE [present |-> TRUE, text |-> <<>>, filler |-> 0]

\* faulty variant: the 30-day rule ignores subject_identified
Rule01_anySubject(st, data) ==
  IF data.total_amount >= FilingThresholdIdentified
    THEN Trigger(st, RULE_01, 1) ELSE st

Rule01(st, data) ==
  IF data.subject_identified /\ data.total_amount >= FilingThresholdIdentified
    THEN Trigger(st, RULE_01, 1) ELSE st

Rule02(st, data) ==
  IF ~data.subject_identified /\ data.total_amount >= FilingThresholdUnidentified
    THEN Trigger(st, RULE_02, 1) ELSE st

\* not kyc.get("full_name"): the key is absent or the name is empty
Rule03(st, data) ==
  IF ~data.kyc.has_full_name \/ data.kyc.full_name = ""
    THEN Error(st, ERR_NAME) ELSE Gain(st, 1)

\* faulty variant: the point is granted whether or not accounts is empty
Rule04_alwaysPoint(st, data) ==
  IF Len(data.accounts) = 0
    THEN Gain(Error(st, ERR_ACCOUNTS), 1) ELSE Gain(st, 1)

Rule04(st, data) ==
  IF Len(data.accounts) = 0
    THEN Error(st, ERR_ACCOUNTS) ELSE Gain(st, 1)

\* faulty variant: equal dates are rejected (end <= start)
Rule05_strictOrder(st, data) ==
  IF Parses(data.activity_start) /\ Parses(data.activity_end)
    THEN IF ~DateLess(ParseDate(data.activity_start), ParseDate(data.activity_end))
           THEN Error(st, ERR_DATE_ORDER) ELSE Gain(st, 1)
    ELSE Error(st, ERR_DATES)

\* faulty variant: no try/except around the parsing
Rule05_noExcept(st, data) ==
  IF Parses(data.activity_start) /\ Parses(data.activity_end)
    THEN IF DateLess(ParseDate(data.activity_end), ParseDate(data.activity_start))
           THEN Error(st, ERR_DATE_ORDER) ELSE Gain(st, 1)
    ELSE Raise(st)

(* try: parse both, compare; except: (bare) any failure of the two lookups *)
(* or of strptime becomes the invalid-dates error.                         *)
Rule05(st, data) ==
  IF Parses(data.activity_start) /\ Parses(data.activity_end)
    THEN IF DateLess(ParseDate(data.activity_end), ParseDate(data.activity_start))
           THEN Error(st, ERR_DATE_ORDER) ELSE Gain(st, 1)
    ELSE Error(st, ERR_DATES)

\* faulty variant: checks stop after the first error
Rule06_shortCircuit(st, data) ==
  IF Len(st.errors) > 0 THEN st
  ELSE IF data.total_amount <= 0 THEN Error(st, ERR_AMOUNT) ELSE Gain(st, 1)

Rule06(st, data) ==
  IF data.total_amount <= 0 THEN Error(st, ERR_AMOUNT) ELSE Gain(st, 1)

\* faulty variant: the structuring flag weighs 3
Rule07_weight3(st, data) ==
  IF has_structuring_raises(data.transactions) THEN Raise(st)
  ELSE IF has_structuring(data.transactions)
    THEN Trigger(st, RULE_10, 3) ELSE st

Rule07(st, data) ==
  IF has_structuring_raises(data.transactions) THEN Raise(st)
  ELSE IF has_structuring(data.transactions)
    THEN Trigger(st, RULE_10, 2) ELSE st

Rule08(st, data) ==
  IF NarrativeTruthy(NarrativeOf(data))
    THEN IF has_5w1h(NarrativeOf(data)) THEN Gain(st, 2) ELSE Warn(st, WARN_5W1H)
    ELSE st

Rule09(st, data) ==
  IF NarrativeTruthy(NarrativeOf(data))
    THEN IF NarrativeLen(NarrativeOf(data)) >= MinNarrativeLen
           THEN Gain(st, 1) ELSE Warn(st, WARN_LENGTH)
    ELSE st

Rule11(st, data) ==
  IF NarrativeTruthy(NarrativeOf(data))
       /\ contains_prohibited_language(NarrativeOf(data))
    THEN Error(st, ERR_PROHIBITED) ELSE Gain(st, 1)

Rule12(st, data) ==
  IF has_transaction_details(data.transactions)
    THEN Gain(st, 1) ELSE Warn(st, WARN_TX)

Rule13(st, data) ==
  IF NarrativeTruthy(NarrativeOf(data))
       /\ Contains(NarrativeLower(NarrativeOf(data)), w_investigation)
    THEN Gain(st, 1) ELSE Warn(st, WARN_INVESTIGATION)

Rule14(st, data) ==
  IF NarrativeTruthy(NarrativeOf(data))
       /\ Contains(NarrativeLower(NarrativeOf(data)), w_conclusion)
    THEN Gain(st, 1) ELSE Warn(st, WARN_CONCLUSION)

\* the k-th check of evaluate_rules, in source order
Check(k, st, data) ==
  CASE k = 1 -> Rule01(st, data)
    [] k = 2 -> Rule02(st, data)
    [] k = 3 -> Rule03(st, data)
    [] k = 4 -> Rule04(st, data)
    [] k = 5 -> Rule05(st, data)
    [] k = 6 -> Rule06(st, data)
    [] k = 7 -> Rule07(st, data)
    [] k = 8 -> Rule08(st, data)
    [] k = 9 -> Rule09(st, data)
    [] k = 10 -> Rule11(st, data)
    [] k = 11 -> Rule12(st, data)
    [] k = 12 -> Rule13(st, data)
    [] k = 13 -> Rule14(st, data)

(* The k-th check run on the locals st; a check is not reached once an     *)
(* exception is propagating.  (x holds the value of st.)                   *)
Then(st, k, data) ==
  CHOOSE r \in {IF x.raised THEN x ELSE Check(k, x, data) : x \in {st}} : TRUE

\* the body of evaluate_rules up to the call of calculate_confidence
RunChecks(data) ==
  LET s01 == Then(Locals0, 1, data)
      s02 == Then(s01, 2, data)
      s03 == Then(s02, 3, data)
      s04 == Then(s03, 4, data)
      s05 == Then(s04, 5, data)
      s06 == Then(s05, 6, data)
      s07 == Then(s06, 7, data)
      s08 == Then(s07, 8, data)
      s09 == Then(s08, 9, data)
      s11 == Then(s09, 10, data)
      s12 == Then(s11, 11, data)
      s13 == Then(s12, 12, data)
  IN  Then(s13, 13, data)

\* the dict evaluate_rules returns
ResultOf(st) ==
  [triggered_rules |-> st.triggered_rules,
   errors |-> st.errors,
   warnings |-> st.warnings,
   confidence_label |-> calculate_confidence(st.score)[1],
   confidence_score |-> calculate_confidence(st.score)[2]]

NoResult ==
  [triggered_rules |-> <<>>, errors |-> <<>>, warnings |-> <<>>,
   confidence_label |-> "", confidence_score |-> 0]

(* ---------------------------------------------------------------------- *)
(* Inputs                                                                  *)
(* ---------------------------------------------------------------------- *)
RECURSIVE SeqsUpTo(_, _)
SeqsUpTo(S, n) ==
  IF n = 0 THEN {<<>>}
  ELSE LET shorter == SeqsUpTo(S, n - 1)
       IN  shorter \cup {Append(q, x) : q \in {r \in shorter : Len(r) = n - 1}, x \in S}

Tx(type, amount) == [keys |-> {"type", "amount"}, type |-> type, amount |-> amount]

\* a transaction record without the "type" key
TxNoType(amount) == [keys |-> {"amount"}, type |-> "", amount |-> amount]

Absent == [present |-> FALSE, text |-> <<>>]

Str(text) == [present |-> TRUE, text |-> text]

d_20231231 == <<"1","2","/","3","1","/","2","0","2","3">>
d_20240101 == <<"0","1","/","0","1","/","2","0","2","4">>
d_20240101_short == <<"1","/","1","/","2","0","2","4">>
d_20240230 == <<"0","2","/","3","0","/","2","0","2","4">>

StartDateInputs ==
  {Absent, Str(d_20231231), Str(d_20240101), Str(d_20240230)}

EndDateInputs ==
  {Absent, Str(d_20231231), Str(d_20240101_short), Str(d_20240230)}

t_complete ==
  <<"W","h","o","e","v","e","r"," ","s","o","m","e","w","h","a","t"," ",
    "W","H","E","N","E","V","E","R"," ","n","o","w","h","e","r","e"," ",
    "w","h","y"," ","a","n","y","h","o","w","."," ",
    "I","n","v","e","s","t","i","g","a","t","i","o","n","."," ",
    "C","O","N","C","L","U","S","I","O","N",".">>
t_prohibited == <<"O","b","v","i","o","u","s","l","y"," ","G","U","I","L","T","Y">>
t_partial ==
  <<"w","h","o"," ","w","h","a","t"," ","w","h","e","n"," ",
    "w","h","e","r","e"," ","w","h","y"," ",
    "c","o","n","c","l","u","s","i","o","n">>

\* the text padded with full stops to a total length of n
Padded(text, n) == [present |-> TRUE, text |-> text, filler |-> n - Len(text)]

NoNarrative == [present |-> FALSE, text |-> <<>>, filler |-> 0]

NarrativeInputs ==
  {NoNarrative,
   Padded(<<>>, 0),
   Padded(t_complete, MinNarrativeLen),
   Padded(t_complete, MinNarrativeLen - 1),
   Padded(t_prohibited, Len(t_prohibited)),
   Padded(t_partial, Len(t_partial))}

AmountInputs ==
  {0, FilingThresholdIdentified - 1, FilingThresholdIdentified,
   FilingThresholdUnidentified - 1, FilingThresholdUnidentified}

KycInputs ==
  {[has_full_name |-> FALSE, full_name |-> ""],
   [has_full_name |-> TRUE, full_name |-> ""],
   [has_full_name |-> TRUE, full_name |-> "Jane Doe"]}

Account == [account_number |-> "ACC-1", type |-> "checking"]

\* the code only tests the list for emptiness
AccountInputs == {<<>>, <<Account>>}

\* what the analyst form offers
FormNames == {"", "Jane Doe"}

FormDates == {Str(<<>>), Str(d_20231231), Str(d_20240101)}

FormAmounts == {0, FilingThresholdIdentified}

\* the text area: text that is not JSON, or the JSON of a list of records
FormTx ==
  {[is_json |-> FALSE, value |-> <<>>],
   [is_json |-> TRUE, value |-> <<>>],
   [is_json |-> TRUE, value |-> <<Tx("cash", 9500)>>],
   [is_json |-> TRUE, value |-> <<TxNoType(9500)>>]}

\* what the language model may answer
LLMOutputs == {"narrative A", "narrative B"}

TxKinds == {Tx("cash", 9500), Tx("wire", 9500), TxNoType(9500)}

\* cash on and around both ends of the structuring range, and a wire inside it
StructTxKinds ==
  {Tx("cash", StructuringLow - 1), Tx("cash", StructuringLow),
   Tx("cash", StructuringHigh), Tx("cash", StructuringHigh + 1),
   Tx("wire", 9500)}

CaseInputs ==
  [kyc : KycInputs,
   accounts : AccountInputs,
   transactions : SeqsUpTo(TxKinds, MaxTx),
   activity_start : StartDateInputs,
   activity_end : EndDateInputs,
   total_amount : AmountInputs,
   subject_identified : BOOLEAN,
   narrative : NarrativeInputs]

\* a complete case in which only the transactions vary
StructCaseInputs ==
  [kyc : {[has_full_name |-> TRUE, full_name |-> "Jane Doe"]},
   accounts : {<<Account>>},
   transactions : SeqsUpTo(StructTxKinds, MaxStructTx),
   activity_start : {Str(d_20231231)},
   activity_end : {Str(d_20240101_short)},
   total_amount : {FilingThresholdUnidentified},
   subject_identified : BOOLEAN,
   narrative : {NoNarrative}]

NoData ==
  [kyc |-> [has_full_name |-> FALSE, full_name |-> ""],
   accounts |-> <<>>, transactions |-> <<>>,
   activity_start |-> Absent, activity_end |-> Absent,
   total_amount |-> 0, subject_identified |-> FALSE,
   narrative |-> NoNarrative]

(* ---------------------------------------------------------------------- *)
(* State                                                                   *)
(* ---------------------------------------------------------------------- *)
VARIABLES
  data,          \* the case payload handed to evaluate_rules
  pc,            \* "ready", or how the call ended: "returned", "raised"
  rule_result,   \* the dict evaluate_rules returned
  score,         \* the final value of the local score
  sar_cases,     \* table sar_cases
  audit_logs,    \* table audit_logs
  session_state, \* st.session_state of the analyst
  calls,         \* the calls the last run of the Generate SAR handler made
  df,            \* the DataFrame handed to evaluate_risk_model
  df0,           \* history: df as the caller built it, before any call
  risk_pc,       \* "ready", or how the last call ended: "returned", "raised"
  risk_results,  \* history: the dicts evaluate_risk_model returned, in order
  tx_table,      \* table transactions
  requests,      \* history: the API requests handled so far and their outcomes
  callers,       \* the calls running concurrently: input, position, outcome
  frames         \* the local variables of each running call

vars ==
  <<data, pc, rule_result, score, sar_cases, audit_logs, session_state, calls,
    df, df0, risk_pc, risk_results, tx_table, requests, callers, frames>>

appVars == <<sar_cases, audit_logs, session_state, calls, tx_table, requests>>

riskVars == <<df, df0, risk_pc, risk_results>>

ruleVars == <<data, pc, rule_result, score>>

concVars == <<callers, frames>>

\* no concurrent calls are running
InitNoCallers ==
  /\ callers = <<>>
  /\ frames = <<>>

NoTable == [columns |-> {}, rows |-> <<>>]

\* no bulk upload is in progress
InitNoUpload ==
  /\ df = NoTable
  /\ df0 = NoTable
  /\ risk_pc = "ready"
  /\ risk_results = <<>>

NoSession == [sar_id |-> 0, has_narrative |-> FALSE, generated_narrative |-> ""]

(* ---------------------------------------------------------------------- *)
(* A call of evaluate_rules                                                *)
(* ---------------------------------------------------------------------- *)
EvaluateRules ==
  /\ pc = "ready"
  /\ \E st \in {RunChecks(data)} :
       IF st.raised
         THEN /\ pc' = "raised"
              /\ UNCHANGED <<rule_result, score>>
         ELSE /\ pc' = "returned"
              /\ rule_result' = ResultOf(st)
              /\ score' = st.score
  /\ UNCHANGED <<data, appVars, riskVars, concVars>>

InitApp ==
  /\ sar_cases = <<>>
  /\ audit_logs = <<>>
  /\ session_state = NoSession
  /\ calls = <<>>
  /\ tx_table = <<>>
  /\ requests = <<>>
  /\ InitNoCallers

(* ---------------------------------------------------------------------- *)
(* src/app.py : the analyst's Generate SAR button                          *)
(* ---------------------------------------------------------------------- *)
\* the payload the handler builds from the form (no "narrative" key)
FormData(full_name, start_date, end_date, total_amount, transactions) ==
  [kyc |-> [has_full_name |-> TRUE, full_name |-> full_name],
   accounts |-> <<Account>>,
   transactions |-> transactions,
   activity_start |-> start_date,
   activity_end |-> end_date,
   total_amount |-> total_amount,
   subject_identified |-> TRUE,
   narrative |-> NoNarrative]

\* faulty variant: the errors do not stop the flow
ErrorsBlock_never(result) == FALSE

\* if rule_result["errors"]:
ErrorsBlock(result) == Len(result.errors) > 0

\* INSERT INTO sar_cases ... RETURNING id
NewCase(id, analyst_id, d, generated_narrative) ==
  [id |-> id, analyst_id |-> analyst_id,
   customer_name |-> d.kyc.full_name,
   kyc_data |-> d.kyc, transaction_data |-> d.transactions,
   generated_narrative |-> generated_narrative,
   edited_narrative |-> "",          \* column not named by the INSERT: NULL
   status |-> "Draft"]

\* INSERT INTO audit_logs
NewAudit(sar_id, rules_triggered, llm_prompt, llm_response) ==
  [sar_id |-> sar_id, rules_triggered |-> rules_triggered,
   llm_prompt |-> llm_prompt, llm_response |-> llm_response]

(* One click.  json.loads, evaluate_rules, the language model and the two  *)
(* inserts may each raise, which ends the handler where it is.             *)
GenerateSAR ==
  /\ Len(sar_cases) < MaxCases
  /\ UNCHANGED <<riskVars, tx_table, requests, concVars>>
  /\ \E full_name \in FormNames, start_date \in FormDates, end_date \in FormDates,
        total_amount \in FormAmounts, tx_input \in FormTx :
       IF ~tx_input.is_json
         THEN \* json.loads raises
              /\ calls' = <<"json.loads">>
              /\ data' = NoData /\ pc' = "ready"
              /\ rule_result' = NoResult /\ score' = 0
              /\ UNCHANGED <<sar_cases, audit_logs, session_state>>
         ELSE
           \E d \in {FormData(full_name, start_date, end_date, total_amount,
                              tx_input.value)} :
           \E st \in {RunChecks(d)} :
             /\ data' = d
             /\ IF st.raised
                  THEN \* evaluate_rules raises
                       /\ pc' = "raised"
                       /\ rule_result' = NoResult /\ score' = 0
                       /\ calls' = <<"json.loads", "evaluate_rules">>
                       /\ UNCHANGED <<sar_cases, audit_logs, session_state>>
                  ELSE
                    /\ pc' = "returned"
                    /\ rule_result' = ResultOf(st)
                    /\ score' = st.score
                    /\ IF ErrorsBlock(ResultOf(st))
                         THEN /\ calls' = <<"json.loads", "evaluate_rules", "st.error">>
                              /\ UNCHANGED <<sar_cases, audit_logs, session_state>>
                         ELSE
                           \/ \* generate_sar_narrative raises
                              /\ calls' = <<"json.loads", "evaluate_rules",
                                            "generate_sar_narrative">>
                              /\ UNCHANGED <<sar_cases, audit_logs, session_state>>
                           \/ \* create_sar_case raises
                              /\ calls' = <<"json.loads", "evaluate_rules",
                                            "generate_sar_narrative",
                                            "create_sar_case">>
                              /\ UNCHANGED <<sar_cases, audit_logs, session_state>>
                           \/ \E narrative \in LLMOutputs,
                                 sar_id \in {Len(sar_cases) + 1} :
                                /\ sar_cases' =
                                     Append(sar_cases, NewCase(sar_id, 1, d, narrative))
                                /\ \/ \* save_audit_log raises
                                      /\ calls' = <<"json.loads", "evaluate_rules",
                                                    "generate_sar_narrative",
                                                    "create_sar_case",
                                                    "save_audit_log">>
                                      /\ UNCHANGED <<audit_logs, session_state>>
                                   \/ /\ audit_logs' =
                                           Append(audit_logs,
                                                  NewAudit(sar_id,
                                                           ResultOf(st).triggered_rules,
                                                           "prompt", narrative))
                                      /\ session_state' =
                                           [sar_id |-> sar_id,
                                            has_narrative |-> TRUE,
                                            generated_narrative |-> narrative]
                                      /\ calls' = <<"json.loads", "evaluate_rules",
                                                    "generate_sar_narrative",
                                                    "create_sar_case",
                                                    "save_audit_log", "st.success">>

InitAnalyst ==
  /\ data = NoData
  /\ pc = "ready"
  /\ rule_result = NoResult
  /\ score = 0
  /\ InitApp
  /\ InitNoUpload

NextApp == GenerateSAR

SpecApp == InitAnalyst /\ [][NextApp]_vars

InitRules ==
  /\ data \in CaseInputs
  /\ pc = "ready"
  /\ rule_result = NoResult
  /\ score = 0
  /\ InitApp
  /\ InitNoUpload

NextRules == EvaluateRules

SpecRules == InitRules /\ [][NextRules]_vars

InitStructuring ==
  /\ data \in StructCaseInputs
  /\ pc = "ready"
  /\ rule_result = NoResult
  /\ score = 0
  /\ InitApp
  /\ InitNoUpload

SpecStructuring == InitStructuring /\ [][NextRules]_vars

(* ---------------------------------------------------------------------- *)
(* What each input of the model is, stated without the rule engine         *)
(* ---------------------------------------------------------------------- *)
InSeq(x, s) == \E i \in 1..Len(s) : s[i] = x

Count(x, s) == Cardinality({i \in 1..Len(s) : s[i] = x})

Returned == pc = "returned"

\* the day a date input names, counted from 12/31/2023; 0 when it names none
DayNumber(d) ==
  IF ~d.present THEN 0
  ELSE IF d.text = d_20231231 THEN 1
  ELSE IF d.text \in {d_20240101, d_20240101_short} THEN 2
  ELSE 0

DatesValid(d) == DayNumber(d.activity_start) > 0 /\ DayNumber(d.activity_end) > 0

DatesOrdered(d) == DayNumber(d.activity_start) <= DayNumber(d.activity_end)

NarrativeGiven(d) ==
  d.narrative.present /\ Len(d.narrative.text) + d.narrative.filler > 0

\* t_complete names all six elements, the investigation and the conclusion
Names5W1H(d) == NarrativeGiven(d) /\ d.narrative.text = t_complete

NamesInvestigation(d) == NarrativeGiven(d) /\ d.narrative.text = t_complete

NamesConclusion(d) ==
  NarrativeGiven(d) /\ d.narrative.text \in {t_complete, t_partial}

LongEnough(d) ==
  NarrativeGiven(d) /\ Len(d.narrative.text) + d.narrative.filler >= 500

UsesProhibited(d) == NarrativeGiven(d) /\ d.narrative.text = t_prohibited

WellTyped(d) ==
  \A i \in 1..Len(d.transactions) : d.transactions[i].keys = {"type", "amount"}

CashIdx(d) == {i \in 1..Len(d.transactions) : d.transactions[i].type = "cash"}

InRangeIdx(d) ==
  {i \in CashIdx(d) : d.transactions[i].amount \in 9000..9999}

\* at least one cash transaction, and at least 80% of them in range
Structured(d) ==
  /\ Cardinality(CashIdx(d)) >= 1
  /\ 5 * Cardinality(InRangeIdx(d)) >= 4 * Cardinality(CashIdx(d))

Files30(d) == d.subject_identified /\ d.total_amount >= 5000

Files60(d) == ~d.subject_identified /\ d.total_amount >= 25000

NameGiven(d) == d.kyc.has_full_name /\ d.kyc.full_name # ""

Pt(b, w) == IF b THEN w ELSE 0

\* the points of every check but the one named
PointsExcept(d, check) ==
    Pt(check # "filing" /\ (Files30(d) \/ Files60(d)), 1)
  + Pt(check # "name" /\ NameGiven(d), 1)
  + Pt(check # "accounts" /\ Len(d.accounts) > 0, 1)
  + Pt(check # "dates" /\ DatesValid(d) /\ DatesOrdered(d), 1)
  + Pt(check # "amount" /\ d.total_amount > 0, 1)
  + Pt(check # "structuring" /\ Structured(d), 2)
  + Pt(check # "5w1h" /\ Names5W1H(d), 2)
  + Pt(check # "length" /\ LongEnough(d), 1)
  + Pt(check # "prohibited" /\ ~UsesProhibited(d), 1)
  + Pt(check # "transactions" /\ Len(d.transactions) > 0, 1)
  + Pt(check # "investigation" /\ NamesInvestigation(d), 1)
  + Pt(check # "conclusion" /\ NamesConclusion(d), 1)

\* the points the named check contributed to the final score
PointsOf(check) == score - PointsExcept(data, check)

(* ---------------------------------------------------------------------- *)
(* Claims                                                                  *)
(* ---------------------------------------------------------------------- *)

(* C1: the 30-day trigger is in triggered_rules exactly when               *)
(* subject_identified and total_amount >= 5000, the 60-day trigger exactly *)
(* when not subject_identified and total_amount >= 25000, and the two      *)
(* never appear together.                                                  *)
C1_FilingTriggers ==
  Returned =>
    /\ InSeq(RULE_01, rule_result.triggered_rules) <=> Files30(data)
    /\ InSeq(RULE_02, rule_result.triggered_rules) <=> Files60(data)
    /\ ~(InSeq(RULE_01, rule_result.triggered_rules)
           /\ InSeq(RULE_02, rule_result.triggered_rules))

C1_Witness ==
  /\ Returned
  /\ data.subject_identified /\ data.total_amount = 25000
  /\ InSeq(RULE_01, rule_result.triggered_rules)
  /\ ~InSeq(RULE_02, rule_result.triggered_rules)

(* C2: structuring is flagged iff the case has a cash transaction and the  *)
(* cash transactions with 9000 <= amount <= 9999 are at least 80% of the   *)
(* cash transactions, whatever the non-cash transactions are; when flagged *)
(* the trigger is appended once and the score gains 2.                     *)
C2_Structuring ==
  Returned =>
    /\ InSeq(RULE_10, rule_result.triggered_rules) <=> Structured(data)
    /\ Count(RULE_10, rule_result.triggered_rules) <= 1
    /\ PointsOf("structuring") = (IF Structured(data) THEN 2 ELSE 0)

\* four of five cash transactions in range (exactly 80%), flagged
C2_Witness ==
  /\ Returned
  /\ Cardinality(CashIdx(data)) = 5
  /\ Cardinality(InRangeIdx(data)) = 4
  /\ InSeq(RULE_10, rule_result.triggered_rules)
  /\ rule_result.triggered_rules[Len(rule_result.triggered_rules)] = RULE_10

(* C3: the confidence label follows the final score with the breakpoints   *)
(* 13 and 9 (>= 13 HIGH 0.9, 9..12 MEDIUM 0.75, <= 8 LOW 0.5), and the     *)
(* final score is the sum of the weights of the checks that passed, as the *)
(* returned lists show them.                                               *)
PassedWeights ==
    Pt(InSeq(RULE_01, rule_result.triggered_rules), 1)
  + Pt(InSeq(RULE_02, rule_result.triggered_rules), 1)
  + Pt(~InSeq(ERR_NAME, rule_result.errors), 1)
  + Pt(~InSeq(ERR_ACCOUNTS, rule_result.errors), 1)
  + Pt(~InSeq(ERR_DATES, rule_result.errors)
         /\ ~InSeq(ERR_DATE_ORDER, rule_result.errors), 1)
  + Pt(~InSeq(ERR_AMOUNT, rule_result.errors), 1)
  + Pt(InSeq(RULE_10, rule_result.triggered_rules), 2)
  + Pt(NarrativeGiven(data) /\ ~InSeq(WARN_5W1H, rule_result.warnings), 2)
  + Pt(NarrativeGiven(data) /\ ~InSeq(WARN_LENGTH, rule_result.warnings), 1)
  + Pt(~InSeq(ERR_PROHIBITED, rule_result.errors), 1)
  + Pt(~InSeq(WARN_TX, rule_result.warnings), 1)
  + Pt(~InSeq(WARN_INVESTIGATION, rule_result.warnings), 1)
  + Pt(~InSeq(WARN_CONCLUSION, rule_result.warnings), 1)

LabelFor(n) ==
  IF n >= 13 THEN <<"HIGH", 90>>
  ELSE IF n >= 9 /\ n <= 12 THEN <<"MEDIUM", 75>>
  ELSE <<"LOW", 50>>

C3_Confidence ==
  Returned =>
    /\ score = PassedWeights
    /\ rule_result.confidence_label = LabelFor(PassedWeights)[1]
    /\ rule_result.confidence_score = LabelFor(PassedWeights)[2]

C3_Witness ==
  /\ Returned
  /\ score = 13
  /\ rule_result.confidence_label = "HIGH"
  /\ rule_result.confidence_score = 90

(* C4: in the case-creation flow, narrative generation, case creation and *)
(* audit-log writing happen only in a handler run whose evaluate_rules     *)
(* call returned an empty errors list; and whenever it returned an empty   *)
(* errors list the flow goes on to narrative generation, however many      *)
(* warnings there are.                                                     *)
Downstream ==
  {"generate_sar_narrative", "create_sar_case", "save_audit_log"}

C4_ErrorsBlock ==
  [][ /\ ( \/ sar_cases' # sar_cases
           \/ audit_logs' # audit_logs
           \/ \E i \in 1..Len(calls') : calls'[i] \in Downstream )
        => ( /\ pc' = "returned"
             /\ rule_result'.errors = <<>>
             /\ Len(calls') >= 3
             /\ calls'[2] = "evaluate_rules"
             /\ \A i \in 1..2 : calls'[i] \notin Downstream )
      /\ (pc' = "returned" /\ rule_result'.errors = <<>>)
        => calls'[3] = "generate_sar_narrative"
    ]_vars

\* a case and its audit entry were stored in a run that had warnings
C4_Witness ==
  /\ Len(sar_cases) = 1 /\ Len(audit_logs) = 1
  /\ audit_logs[1].sar_id = sar_cases[1].id
  /\ pc = "returned"
  /\ rule_result.errors = <<>>
  /\ Len(rule_result.warnings) >= 3
  /\ calls[Len(calls)] = "st.success"

(* C5: no short-circuit: errors holds exactly one entry per failing        *)
(* validation check, in the order name, accounts, dates, amount,           *)
(* prohibited language; warnings holds one entry per failing advisory      *)
(* check in check order; and every check adds its points whatever failed   *)
(* before it.                                                              *)
Opt(b, x) == IF b THEN <<x>> ELSE <<>>

FailingValidations(d) ==
       Opt(~NameGiven(d), ERR_NAME)
  \o Opt(Len(d.accounts) = 0, ERR_ACCOUNTS)
  \o Opt(~DatesValid(d), ERR_DATES)
  \o Opt(DatesValid(d) /\ ~DatesOrdered(d), ERR_DATE_ORDER)
  \o Opt(d.total_amount <= 0, ERR_AMOUNT)
  \o Opt(UsesProhibited(d), ERR_PROHIBITED)

FailingAdvisories(d) ==
       Opt(NarrativeGiven(d) /\ ~Names5W1H(d), WARN_5W1H)
  \o Opt(NarrativeGiven(d) /\ ~LongEnough(d), WARN_LENGTH)
  \o Opt(Len(d.transactions) = 0, WARN_TX)
  \o Opt(~NamesInvestigation(d), WARN_INVESTIGATION)
  \o Opt(~NamesConclusion(d), WARN_CONCLUSION)

C5_NoShortCircuit ==
  Returned =>
    /\ rule_result.errors = FailingValidations(data)
    /\ rule_result.warnings = FailingAdvisories(data)
    /\ score = PointsExcept(data, "none")

\* all five validations fail and the later checks still warn and score
C5_Witness ==
  /\ Returned
  /\ rule_result.errors =
       <<ERR_NAME, ERR_ACCOUNTS, ERR_DATES, ERR_AMOUNT, ERR_PROHIBITED>>
  /\ InSeq(WARN_CONCLUSION, rule_result.warnings)
  /\ InSeq(RULE_10, rule_result.triggered_rules)
  /\ score = 3

(* C6: on well-typed input evaluate_rules returns (never raises), and      *)
(* activity dates that are missing or do not parse as MM/DD/YYYY give the  *)
(* error "Invalid or missing activity dates".                              *)
C6_Total ==
  (pc # "ready" /\ WellTyped(data)) =>
    /\ pc = "returned"
    /\ ~DatesValid(data) => InSeq(ERR_DATES, rule_result.errors)

\* a missing start date and an end date that names no day
C6_Witness ==
  /\ Returned
  /\ ~data.activity_start.present
  /\ data.activity_end = Str(d_20240230)
  /\ InSeq(ERR_DATES, rule_result.errors)

(* C7: date validation has exactly one of three outcomes: both dates parse *)
(* and end >= start: the point and no date error; both parse and end <     *)
(* start: "End date before start date" and no point; either date missing   *)
(* or unparsable: the invalid-dates error and no point.                    *)
C7_DateOutcomes ==
  Returned =>
    LET order == Count(ERR_DATE_ORDER, rule_result.errors)
        invalid == Count(ERR_DATES, rule_result.errors)
        point == PointsOf("dates")
    IN  /\ order + invalid + point = 1
        /\ point \in {0, 1}
        /\ (DatesValid(data) /\ DatesOrdered(data)) => point = 1
        /\ (DatesValid(data) /\ ~DatesOrdered(data)) => order = 1
        /\ ~DatesValid(data) => invalid = 1

\* equal days written differently: 01/01/2024 and 1/1/2024
C7_Witness ==
  /\ Returned
  /\ data.activity_start = Str(d_20240101)
  /\ data.activity_end = Str(d_20240101_short)
  /\ PointsOf("dates") = 1
  /\ ~InSeq(ERR_DATE_ORDER, rule_result.errors)
  /\ ~InSeq(ERR_DATES, rule_result.errors)

(* C8: with empty accounts errors contains "No account information         *)
(* provided" and the rule-4 point is not granted; with non-empty accounts  *)
(* the message is absent and the point is granted.                         *)
C8_Accounts ==
  Returned =>
    IF Len(data.accounts) = 0
      THEN InSeq(ERR_ACCOUNTS, rule_result.errors) /\ PointsOf("accounts") = 0
      ELSE ~InSeq(ERR_ACCOUNTS, rule_result.errors) /\ PointsOf("accounts") = 1

C8_Witness ==
  /\ Returned
  /\ data.accounts = <<>>
  /\ InSeq(ERR_ACCOUNTS, rule_result.errors)
  /\ PointsOf("accounts") = 0

(* C9: a non-empty narrative containing a prohibited term (in any case)    *)
(* gives the error "Prohibited language detected" and no point; every      *)
(* other case, an absent or empty narrative included, gives exactly one    *)
(* point and no such error.                                                *)
C9_Prohibited ==
  Returned =>
    IF UsesProhibited(data)
      THEN /\ Count(ERR_PROHIBITED, rule_result.errors) = 1
           /\ PointsOf("prohibited") = 0
      ELSE /\ ~InSeq(ERR_PROHIBITED, rule_result.errors)
           /\ PointsOf("prohibited") = 1

\* "Obviously GUILTY": the terms appear capitalised
C9_Witness ==
  /\ Returned
  /\ data.narrative.present /\ data.narrative.text = t_prohibited
  /\ InSeq(ERR_PROHIBITED, rule_result.errors)
  /\ PointsOf("prohibited") = 0

(* C10: for a case whose narrative is absent or empty the narrative-       *)
(* content checks (5W1H, length, investigation, conclusion) add no points  *)
(* and no warnings.                                                        *)
NarrativeWarnings ==
  {WARN_5W1H, WARN_LENGTH, WARN_INVESTIGATION, WARN_CONCLUSION}

C10_NarrativeSkipped ==
  (Returned /\ ~NarrativeGiven(data)) =>
    /\ PointsOf("5w1h") = 0 /\ PointsOf("length") = 0
    /\ PointsOf("investigation") = 0 /\ PointsOf("conclusion") = 0
    /\ \A i \in 1..Len(rule_result.warnings) :
         rule_result.warnings[i] \notin NarrativeWarnings

(* ====================================================================== *)
(* src/rules/suspicious_rules.py : evaluate_risk_model, the bulk scorer    *)
(* ====================================================================== *)

(* ---------------------------------------------------------------------- *)
(* Cells of a DataFrame                                                    *)
(* ---------------------------------------------------------------------- *)
\* a number
Num(n) == [kind |-> "num", num |-> n, text |-> <<>>]

\* a string, held as the tuple of its characters
Text(t) == [kind |-> "str", num |-> 0, text |-> t]

\* a missing value (an empty CSV field)
NaN == [kind |-> "nan", num |-> 0, text |-> <<>>]

\* a pandas Timestamp, num is year * 10000 + month * 100 + day
Timestamp(ymd) ==
  [kind |-> "datetime", num |-> ymd[1] * 10000 + ymd[2] * 100 + ymd[3],
   text |-> <<>>]

\* the missing Timestamp
NaT == [kind |-> "nat", num |-> 0, text |-> <<>>]

\* the upper-case letter of each lower-case letter
ToUpper ==
  [c \in {LowerLetters[i] : i \in 1..Len(LowerLetters)} |->
     UpperLetters[CHOOSE i \in 1..Len(LowerLetters) : LowerLetters[i] = c]]

\* str.upper()
Upper(s) == [i \in 1..Len(s) |-> IF s[i] \in DOMAIN ToUpper THEN ToUpper[s[i]] ELSE s[i]]

\* the digits of a whole number written with an optional sign
Unsigned(t) == IF Len(t) > 0 /\ t[1] \in {"-", "+"} THEN Tail(t) ELSE t

\* the text is a whole-number literal (the inputs hold no fractions)
IsNumberText(t) == Len(Unsigned(t)) > 0 /\ AllDigits(Unsigned(t))

NumberOf(t) ==
  IF Len(t) > 0 /\ t[1] = "-" THEN 0 - NumVal(Unsigned(t)) ELSE NumVal(Unsigned(t))

\* the text without its thousands separators
RECURSIVE DropCommas(_)
DropCommas(t) ==
  IF Len(t) = 0 THEN <<>>
  ELSE IF Head(t) = "," THEN DropCommas(Tail(t))
  ELSE <<Head(t)>> \o DropCommas(Tail(t))

\* faulty variant: separators are dropped before parsing, "9,500" is 9500
to_numeric_lenient(cell) ==
  IF cell.kind = "num" THEN cell
  ELSE IF cell.kind = "str" /\ IsNumberText(DropCommas(cell.text))
    THEN Num(NumberOf(DropCommas(cell.text)))
  ELSE NaN

\* faulty variant: only text is parsed, a cell that already holds a number
\* is not recognised
to_numeric_textOnly(cell) ==
  IF cell.kind = "str" /\ IsNumberText(cell.text) THEN Num(NumberOf(cell.text))
  ELSE NaN

\* pd.to_numeric(..., errors='coerce') on one cell
to_numeric(cell) ==
  IF cell.kind = "num" THEN cell
  ELSE IF cell.kind = "str" /\ IsNumberText(cell.text) THEN Num(NumberOf(cell.text))
  ELSE NaN

\* Series.fillna(0) on one cell
fillna(cell) == IF cell.kind = "nan" THEN Num(0) ELSE cell

\* pd.to_datetime(..., errors='coerce') on one cell; the inputs write dates
\* as month/day/year
to_datetime(cell) ==
  IF cell.kind \in {"datetime", "nat"} THEN cell
  ELSE IF cell.kind = "str" /\ Parses(Str(cell.text))
    THEN Timestamp(ParseDate(Str(cell.text)))
  ELSE NaT

(* ---------------------------------------------------------------------- *)
(* evaluate_risk_model(df)                                                 *)
(* ---------------------------------------------------------------------- *)
\* one row after lines 182-184: the columns amount and transaction_date
\* are assigned their converted values
CoerceRow(columns, r) ==
  [c \in DOMAIN r |->
     IF c = "amount" THEN fillna(to_numeric(r[c]))
     ELSE IF c = "transaction_date" THEN to_datetime(r[c])
     ELSE r[c]]

\* df after the two column assignments
Coerce(t) ==
  [columns |-> t.columns,
   rows |-> [i \in 1..Len(t.rows) |-> CoerceRow(t.columns, t.rows[i])]]

\* df['amount'].sum()
RECURSIVE SumAmounts(_)
SumAmounts(rows) ==
  IF Len(rows) = 0 THEN 0
  ELSE rows[1].amount.num + SumAmounts(Tail(rows))

\* faulty variant: the threshold itself is not high value
high_value_tx_exclusive(t) == {i \in 1..Len(t.rows) : t.rows[i].amount.num > 9000}

\* the rows of df[df['amount'] >= 9000]
high_value_tx(t) == {i \in 1..Len(t.rows) : t.rows[i].amount.num >= 9000}

\* faulty variant: the ends of the window are inside it
structuring_tx_inclusive(t) ==
  {i \in 1..Len(t.rows) :
     t.rows[i].amount.num >= 9000 /\ t.rows[i].amount.num <= 10000}

\* the rows of df[(df['amount'] > 9000) & (df['amount'] < 10000)]
structuring_tx(t) ==
  {i \in 1..Len(t.rows) :
     t.rows[i].amount.num > 9000 /\ t.rows[i].amount.num < 10000}

\* the dtype read_csv gives the country column: float64 when the column
\* has rows and every field is empty, object otherwise
CountryDtype(t) ==
  IF Len(t.rows) > 0 /\ \A i \in 1..Len(t.rows) : t.rows[i].country.kind = "nan"
    THEN "float64"
    ELSE "object"

\* df['country'].str raises AttributeError on a column that is not of strings
StrAccessorRaises(t) == "country" \in t.columns /\ CountryDtype(t) # "object"

\* .str.upper() on one cell: a missing value stays missing
StrUpper(cell) == IF cell.kind = "str" THEN Text(Upper(cell.text)) ELSE cell

\* faulty variant: the country is compared as written
cross_border_asWritten(t) ==
  {i \in 1..Len(t.rows) : t.rows[i].country # Text(<<"U", "S">>)}

\* the rows of df[df['country'].str.upper() != 'US']
cross_border(t) ==
  {i \in 1..Len(t.rows) : StrUpper(t.rows[i].country) # Text(<<"U", "S">>)}

\* faulty variant: the volume tiers include their lower ends
VolumeScore_inclusive(total_volume) ==
  IF total_volume >= 100000 THEN 30
  ELSE IF total_volume >= 20000 THEN 10
  ELSE 0

\* base_score after the volume tiers (lines 213-217)
VolumeScore(total_volume) ==
  IF total_volume > 100000 THEN 30
  ELSE IF total_volume > 20000 THEN 10
  ELSE 0

\* base_score after the two count terms (lines 219-220)
base_score(total_volume, high_value_count, cross_border_count) ==
  VolumeScore(total_volume) + high_value_count * 5 + cross_border_count * 10

\* faulty variant: the score is not capped
risk_score_uncapped(base) == base

\* risk_score = min(base_score, 100)
risk_score(base) == IF base < 100 THEN base ELSE 100

\* faulty variant: High starts at 60
risk_level_high60(s) ==
  IF s >= 80 THEN "Critical"
  ELSE IF s >= 60 THEN "High"
  ELSE IF s >= 20 THEN "Medium"
  ELSE "Low"

\* risk_level (lines 223-230)
risk_level(s) ==
  IF s >= 80 THEN "Critical"
  ELSE IF s >= 50 THEN "High"
  ELSE IF s >= 20 THEN "Medium"
  ELSE "Low"

\* the three f-strings and literals appended to triggered_rules, each held
\* as the tuple of its pieces
HighValueRule(n) == <<"High Value Transactions Detected (Count: ", n, ")">>

StructuringRule == <<"Potential Structuring Detected ($9000-$10000 range)">>

CrossBorderRule(n) == <<"Cross-Border Activity Detected (", n, " txns)">>

\* faulty variant: the structuring check runs before the high-value check
TriggeredRules_swapped(t, high_value_count, structuring_count, cross_border_count) ==
  (IF structuring_count > 2 THEN <<StructuringRule>> ELSE <<>>)
  \o (IF high_value_count > 0 THEN <<HighValueRule(high_value_count)>> ELSE <<>>)
  \o (IF "country" \in t.columns /\ cross_border_count > 0
        THEN <<CrossBorderRule(cross_border_count)>> ELSE <<>>)

\* triggered_rules as the appends of lines 195-209 leave it
TriggeredRules(t, high_value_count, structuring_count, cross_border_count) ==
  (IF high_value_count > 0 THEN <<HighValueRule(high_value_count)>> ELSE <<>>)
  \o (IF structuring_count > 2 THEN <<StructuringRule>> ELSE <<>>)
  \o (IF "country" \in t.columns /\ cross_border_count > 0
        THEN <<CrossBorderRule(cross_border_count)>> ELSE <<>>)

\* the dict the function returns for the converted table t
RiskResult(t) ==
  LET total_volume == SumAmounts(t.rows)
      high_value_count == Cardinality(high_value_tx(t))
      structuring_count == Cardinality(structuring_tx(t))
      cross_border_count ==
        IF "country" \in t.columns THEN Cardinality(cross_border(t)) ELSE 0
  IN  [score |-> risk_score(base_score(total_volume, high_value_count,
                                       cross_border_count)),
       level |-> risk_level(risk_score(base_score(total_volume, high_value_count,
                                                  cross_border_count))),
       metrics |-> [total_volume |-> total_volume,
                    high_value_count |-> high_value_count,
                    cross_border_count |-> cross_border_count],
       triggered_rules |-> TriggeredRules(t, high_value_count, structuring_count,
                                          cross_border_count)]

NoRisk ==
  [score |-> 0, level |-> "",
   metrics |-> [total_volume |-> 0, high_value_count |-> 0, cross_border_count |-> 0],
   triggered_rules |-> <<>>]

\* one call: what df holds afterwards, whether the call raised, and what it
\* returned.  df['amount'] on a table without that column raises KeyError
\* before anything is assigned; the .str accessor raises after the columns
\* were assigned.
evaluate_risk_model(t) ==
  IF "amount" \notin t.columns
    THEN [df |-> t, raised |-> TRUE, result |-> NoRisk]
  ELSE CHOOSE out \in
         {IF StrAccessorRaises(c)
            THEN [df |-> c, raised |-> TRUE, result |-> NoRisk]
            ELSE [df |-> c, raised |-> FALSE, result |-> RiskResult(c)]
          : c \in {Coerce(t)}} : TRUE

(* ---------------------------------------------------------------------- *)
(* A call of evaluate_risk_model on the caller's table                     *)
(* ---------------------------------------------------------------------- *)
MaxCalls == 2

EvaluateRiskModel ==
  /\ risk_pc # "raised"
  /\ Len(risk_results) < MaxCalls
  /\ \E out \in {evaluate_risk_model(df)} :
       /\ df' = out.df
       /\ IF out.raised
            THEN /\ risk_pc' = "raised"
                 /\ UNCHANGED risk_results
            ELSE /\ risk_pc' = "returned"
                 /\ risk_results' = Append(risk_results, out.result)
  /\ UNCHANGED <<df0, ruleVars, appVars, concVars>>

(* ---------------------------------------------------------------------- *)
(* Tables handed to evaluate_risk_model.  process_csv_upload calls it only *)
(* on a table that has the columns amount and transaction_date; country is *)
(* optional.  customer_id is not read by the scorer and is left out.       *)
(* ---------------------------------------------------------------------- *)
MaxRows == 3

MaxBulkRows == 20

t_9500 == <<"9","5","0","0">>
t_9comma500 == <<"9",",","5","0","0">>
t_US == <<"U","S">>
t_us == <<"u","s">>
t_CA == <<"C","A">>

Row(amount, transaction_date, country) ==
  [amount |-> amount, transaction_date |-> transaction_date, country |-> country]

\* the row of a table that has no country column
WithoutCountry(r) == [amount |-> r.amount, transaction_date |-> r.transaction_date]

RowInputs ==
  {Row(Text(t_9comma500), Text(d_20240101), Text(t_CA)),
   Row(Text(t_9comma500), Text(d_20240101), Text(t_US)),
   Row(NaN, Text(d_20240101), Text(t_US)),
   Row(Num(0 - 9500), Text(d_20240230), Text(t_US)),
   Row(Num(9000), Text(d_20240101), Text(t_US)),
   Row(Num(10000), Text(d_20240101), Text(t_us)),
   Row(Text(t_9500), Text(d_20240101), Text(t_US)),
   Row(Num(9500), Text(d_20240101), Text(t_CA)),
   Row(Num(9500), NaN, NaN)}

Table(columns, rows) == [columns |-> columns, rows |-> rows]

TablesOf(rowSeqs) ==
  {Table({"amount", "transaction_date", "country"}, rows) : rows \in rowSeqs}
  \cup {Table({"amount", "transaction_date"},
              [i \in 1..Len(rows) |-> WithoutCountry(rows[i])]) : rows \in rowSeqs}

\* every table of at most MaxRows rows
TableInputs == TablesOf(SeqsUpTo(RowInputs, MaxRows))

BulkRowInputs ==
  {Row(Num(0 - 5000), Text(d_20240101), Text(t_US)),
   Row(Num(5000), Text(d_20240101), Text(t_US)),
   Row(Num(7500), Text(d_20240101), Text(t_US)),
   Row(Num(9500), Text(d_20240101), Text(t_US)),
   Row(Num(9500), Text(d_20240101), Text(t_CA)),
   Row(Text(t_9comma500), Text(d_20240101), Text(t_CA))}

\* n copies of the row r
Repeat(r, n) == [i \in 1..n |-> r]

MaxBulkTail == 2

\* every table of at most MaxBulkRows rows made of a run of one row
\* followed by at most MaxBulkTail copies of another
BulkTableInputs ==
  TablesOf({rows \in {Repeat(a, n) \o Repeat(b, m) :
                        a \in BulkRowInputs, b \in BulkRowInputs,
                        n \in 0..MaxBulkRows, m \in 0..MaxBulkTail} :
              Len(rows) <= MaxBulkRows})

InitNoCase ==
  /\ data = NoData
  /\ pc = "ready"
  /\ rule_result = NoResult
  /\ score = 0
  /\ InitApp

InitRisk ==
  /\ df \in TableInputs
  /\ df0 = df
  /\ risk_pc = "ready"
  /\ risk_results = <<>>
  /\ InitNoCase

NextRisk == EvaluateRiskModel

SpecRisk == InitRisk /\ [][NextRisk]_vars

InitBulk ==
  /\ df \in BulkTableInputs
  /\ df0 = df
  /\ risk_pc = "ready"
  /\ risk_results = <<>>
  /\ InitNoCase

SpecBulk == InitBulk /\ [][NextRisk]_vars

(* ---------------------------------------------------------------------- *)
(* Oracles for the bulk scorer, stated from the table the caller built     *)
(* ---------------------------------------------------------------------- *)
\* the call has returned at least once
RiskReturned == Len(risk_results) > 0

\* the uncapped sum the first result reports through its metrics
Uncapped(result) ==
  5 * result.metrics.high_value_count + 10 * result.metrics.cross_border_count

(* C11: whatever the table holds (any number of rows, zero, negative,      *)
(* invalid or missing amounts, with or without a country column), every    *)
(* score the scorer returns is an integer between 0 and 100 inclusive.     *)
C11_ScoreRange ==
  \A i \in 1..Len(risk_results) :
    /\ risk_results[i].score \in Int
    /\ 0 <= risk_results[i].score
    /\ risk_results[i].score <= 100

\* the counts alone exceed 100 and the amounts include invalid ones
C11_Witness ==
  /\ RiskReturned
  /\ Uncapped(risk_results[1]) > 100
  /\ \E i \in 1..Len(df0.rows) : df0.rows[i].amount = Text(t_9comma500)
  /\ risk_results[1].score = 100

\* the amount a field of the caller's table stands for: a number, the text
\* of a number, or nothing (an empty or malformed field)
AmountValue(cell) ==
  IF cell.kind = "num" THEN cell.num
  ELSE IF cell = Text(t_9500) THEN 9500
  ELSE 0

RECURSIVE VolumeOf(_)
VolumeOf(rows) ==
  IF rows = <<>> THEN 0
  ELSE AmountValue(Head(rows).amount) + VolumeOf(Tail(rows))

\* rows of the caller's table at or above 9000
HighRows == {i \in 1..Len(df0.rows) : AmountValue(df0.rows[i].amount) >= 9000}

HasCountry == "country" \in df0.columns

\* rows of the caller's table whose country is not US in any letter case
ForeignRows ==
  IF HasCountry
    THEN {i \in 1..Len(df0.rows) :
            df0.rows[i].country \notin {Text(t_US), Text(t_us)}}
    ELSE {}

\* the volume tier of the caller's table
TierOf(volume) ==
  CASE volume > 100000 -> 30
    [] volume > 20000 /\ volume <= 100000 -> 10
    [] volume <= 20000 -> 0

Min(a, b) == IF a <= b THEN a ELSE b

ExpectedScore ==
  Min(100, TierOf(VolumeOf(df0.rows)) + 5 * Cardinality(HighRows)
             + 10 * Cardinality(ForeignRows))

\* n rows of the amount a, without a country column
PlainRows(a, n) ==
  Table({"amount", "transaction_date"},
        Repeat(WithoutCountry(Row(Num(a), Text(d_20240101), NaN)), n))

(* C12: the score is min(100, base + 5 * high_value_count                  *)
(* + 10 * cross_border_count), where base is 30 when total_volume exceeds  *)
(* 100000, else 10 when it exceeds 20000, else 0; a volume of exactly      *)
(* 20000 gets base 0 and exactly 100000 gets base 10.  Three rows of 9500  *)
(* without a country column score 25, and a volume of 150000 without high  *)
(* value or cross-border rows scores 30.                                   *)
C12_ScoreFormula ==
  \A i \in 1..Len(risk_results) :
    /\ risk_results[i].score = ExpectedScore
    /\ df0 = PlainRows(9500, 3) => risk_results[i].score = 25
    /\ df0 = PlainRows(7500, 20) => risk_results[i].score = 30
    /\ df0 = PlainRows(5000, 4) => risk_results[i].score = 0
    /\ df0 = PlainRows(5000, 20) => risk_results[i].score = 10

\* a volume of exactly 100000 in rows below 9000 was scored 10
C12_Witness ==
  /\ RiskReturned
  /\ df0 = PlainRows(5000, 20)
  /\ risk_results[1].metrics.total_volume = 100000
  /\ risk_results[1].score = 10

\* the level the score alone stands for
LevelOf(s) ==
  CASE s >= 80 -> "Critical"
    [] s >= 50 /\ s <= 79 -> "High"
    [] s >= 20 /\ s <= 49 -> "Medium"
    [] s <= 19 -> "Low"

(* C13: the level is determined by the score alone: 80 and above is        *)
(* Critical, 50 to 79 is High, 20 to 49 is Medium and 19 or less is Low.   *)
C13_Level ==
  \A i \in 1..Len(risk_results) :
    risk_results[i].level = LevelOf(risk_results[i].score)

\* a score between 50 and 59 was returned as High
C13_Witness ==
  /\ RiskReturned
  /\ risk_results[1].score >= 50
  /\ risk_results[1].score < 60
  /\ risk_results[1].level = "High"

\* rows of the caller's table strictly inside the window
WindowRows ==
  {i \in 1..Len(df0.rows) :
     /\ AmountValue(df0.rows[i].amount) > 9000
     /\ AmountValue(df0.rows[i].amount) < 10000}

\* rows of the caller's table at an end of the window
WindowEndRows ==
  {i \in 1..Len(df0.rows) : AmountValue(df0.rows[i].amount) \in {9000, 10000}}

(* C14: the structuring trigger is appended exactly when more than two     *)
(* rows have an amount strictly between 9000 and 10000; rows of exactly    *)
(* 9000 or 10000 are not counted, two rows in the window do not trigger,   *)
(* and the trigger adds nothing to the score.                              *)
C14_StructuringTrigger ==
  \A i \in 1..Len(risk_results) :
    /\ Count(StructuringRule, risk_results[i].triggered_rules)
         = (IF Cardinality(WindowRows) > 2 THEN 1 ELSE 0)
    /\ risk_results[i].score = ExpectedScore

\* three rows in the window: the trigger is there, the score is unmoved
C14_Witness ==
  /\ RiskReturned
  /\ Cardinality(WindowRows) = 3
  /\ InSeq(StructuringRule, risk_results[1].triggered_rules)
  /\ risk_results[1].score = ExpectedScore

\* the entries of triggered_rules that report cross-border activity
CrossBorderEntries(result) ==
  {k \in 1..Len(result.triggered_rules) :
     result.triggered_rules[k][1] = "Cross-Border Activity Detected ("}

HighValueEntries(result) ==
  {k \in 1..Len(result.triggered_rules) :
     result.triggered_rules[k][1] = "High Value Transactions Detected (Count: "}

ExtraRows ==
  IF HasCountry THEN RowInputs ELSE {WithoutCountry(r) : r \in RowInputs}

\* the score of the caller's table with the row r added at its end
ScoreWith(r) ==
  evaluate_risk_model(Table(df0.columns, Append(df0.rows, r))).result.score

(* C17: the score is monotonic in added activity: for any table T and any  *)
(* additional transaction row r, the score of T with r added is at least   *)
(* the score of T.                                                         *)
C17_Monotonic ==
  RiskReturned =>
    \A r \in ExtraRows :
      ~evaluate_risk_model(Table(df0.columns, Append(df0.rows, r))).raised
        => ScoreWith(r) >= risk_results[1].score

(* C18: the scorer is a pure function of its table: a call leaves the      *)
(* caller's table as it was, no column of it is rewritten.                 *)
C18_InputUnchanged == RiskReturned => df = df0

(* C19: scoring is idempotent: a second call on the same table object      *)
(* returns the same score, level, metrics and triggered_rules as the       *)
(* first, also when the first call coerced invalid amounts in that table.  *)
C19_Idempotent ==
  \A i \in 1..Len(risk_results) :
    /\ risk_results[i].score = risk_results[1].score
    /\ risk_results[i].level = risk_results[1].level
    /\ risk_results[i].metrics = risk_results[1].metrics
    /\ risk_results[i].triggered_rules = risk_results[1].triggered_rules

\* two calls on a table whose amounts the first call converted from text,
\* one valid and one invalid
C19_Witness ==
  /\ Len(risk_results) >= 2
  /\ \E i \in 1..Len(df0.rows) : df0.rows[i].amount = Text(t_9comma500)
  /\ \E i \in 1..Len(df0.rows) : df0.rows[i].amount = Text(t_9500)
  /\ df # df0
  /\ risk_results[2] = risk_results[1]
  /\ risk_results[2].score > 0

\* the amount field of the caller's table holds a number or its text
IsValidAmount(cell) == cell.kind = "num" \/ cell = Text(t_9500)

\* the rows of the caller's table whose amount is valid
ValidRows == {i \in 1..Len(df0.rows) : IsValidAmount(df0.rows[i].amount)}

RECURSIVE SumOver(_, _)
SumOver(rows, idx) ==
  IF idx = {} THEN 0
  ELSE LET i == CHOOSE k \in idx : TRUE
       IN  AmountValue(rows[i].amount) + SumOver(rows, idx \ {i})

\* the only way a call on these tables raises: the country column holds no
\* string at all
CountryAllMissing ==
  /\ HasCountry
  /\ Len(df0.rows) > 0
  /\ \A i \in 1..Len(df0.rows) : df0.rows[i].country = NaN

(* C20: an invalid or missing amount is treated as 0: the call does not    *)
(* raise for it, the result does not report it, and the row contributes    *)
(* nothing to total_volume, high_value_count or the structuring window.    *)
C20_SilentCoercion ==
  /\ risk_pc = "raised" => CountryAllMissing
  /\ risk_pc # "ready" =>
       \A i \in 1..Len(df0.rows) :
         ~IsValidAmount(df0.rows[i].amount) => df.rows[i].amount = Num(0)
  /\ \A i \in 1..Len(risk_results) :
       /\ DOMAIN risk_results[i] = {"score", "level", "metrics", "triggered_rules"}
       /\ DOMAIN risk_results[i].metrics =
            {"total_volume", "high_value_count", "cross_border_count"}
       /\ \A k \in 1..Len(risk_results[i].triggered_rules) :
            \/ k \in HighValueEntries(risk_results[i])
            \/ k \in CrossBorderEntries(risk_results[i])
            \/ risk_results[i].triggered_rules[k] = StructuringRule
       /\ risk_results[i].metrics.total_volume = SumOver(df0.rows, ValidRows)
       /\ risk_results[i].metrics.high_value_count
            = Cardinality(HighRows \cap ValidRows)
       /\ InSeq(StructuringRule, risk_results[i].triggered_rules)
            <=> Cardinality(WindowRows \cap ValidRows) > 2

\* a malformed amount, an empty amount and one valid amount: only the
\* valid one is in the totals
C20_Witness ==
  /\ RiskReturned
  /\ \E i \in 1..Len(df0.rows) : df0.rows[i].amount = Text(t_9comma500)
  /\ \E i \in 1..Len(df0.rows) : df0.rows[i].amount = NaN
  /\ Cardinality(ValidRows) = 1
  /\ risk_results[1].metrics.total_volume = 10000
  /\ risk_results[1].metrics.high_value_count = 1

(* ====================================================================== *)
(* src/backend : the CSV import                                            *)
(* ====================================================================== *)
\* the position of a character in ASCII order (digits, upper, lower case)
Ord(c) ==
  CHOOSE i \in 1..(Len(Digits) + Len(UpperLetters) + Len(LowerLetters)) :
    (Digits \o UpperLetters \o LowerLetters)[i] = c

\* str.__lt__
RECURSIVE StrLess(_, _)
StrLess(a, b) ==
  IF Len(b) = 0 THEN FALSE
  ELSE IF Len(a) = 0 THEN TRUE
  ELSE IF Head(a) = Head(b) THEN StrLess(Tail(a), Tail(b))
  ELSE Ord(Head(a)) < Ord(Head(b))

\* the customer ids of the column that are not missing
CustomerIds(t) ==
  {t.rows[i].customer_id.text :
     i \in {k \in 1..Len(t.rows) : t.rows[k].customer_id.kind = "str"}}

\* how often the id occurs in the column
Occurrences(t, id) ==
  Cardinality({i \in 1..Len(t.rows) : t.rows[i].customer_id = Text(id)})

\* df['customer_id'].mode(): the most frequent ids, missing values dropped
ModeIds(t) ==
  {id \in CustomerIds(t) :
     \A other \in CustomerIds(t) : Occurrences(t, other) <= Occurrences(t, id)}

\* df['customer_id'] raises KeyError without the column, and .mode()[0]
\* raises it when every id is missing
ModeRaises(t) ==
  \/ "customer_id" \notin t.columns
  \/ Len(t.rows) > 0 /\ CustomerIds(t) = {}

\* line 238; mode() is sorted, [0] is its least id
CustomerIdOf(t) ==
  IF Len(t.rows) = 0 THEN "Unknown"
  ELSE CHOOSE id \in ModeIds(t) : \A other \in ModeIds(t) \ {id} : StrLess(id, other)

\* record.get(key, default) on a row of df.to_dict(orient='records')
RecordGet(r, key, default) == IF key \in DOMAIN r THEN r[key] ELSE default

\* the row of table transactions written for the record r (lines 279-307)
NewTransaction(id, case_id, r) ==
  [id |-> id, case_id |-> case_id,
   cid |-> RecordGet(r, "customer_id", NaN),
   amt |-> RecordGet(r, "amount", Num(0)),
   t_date |-> RecordGet(r, "transaction_date", NaN),
   type |-> "Standard", desc |-> "", merchant |-> "",
   country |-> RecordGet(r, "country", Text(<<"U", "S">>))]

\* the rows of table transactions for the records, ids counted on from n
NewTransactions(n, case_id, rows) ==
  [i \in 1..Len(rows) |-> NewTransaction(n + i, case_id, rows[i])]

\* the row of table sar_cases written by lines 248-273
NewCsvCase(id, user_id, customer_id, filename, risk_result, rows) ==
  [id |-> id, analyst_id |-> user_id, customer_name |-> customer_id,
   kyc_data |-> [full_name |-> customer_id, customer_id |-> customer_id,
                 source |-> "CSV Upload", filename |-> filename,
                 risk_score |-> risk_result.score,
                 risk_level |-> risk_result.level,
                 triggered_rules |-> risk_result.triggered_rules],
   transaction_data |-> rows,
   generated_narrative |-> "Pending Generation (Uploaded via CSV)",
   edited_narrative |-> "",
   status |-> "Draft"]

\* backend.services.audit_service.save_audit_log: records the entry
BackendAudit(logs, sar_id, rules_triggered, llm_prompt, llm_response) ==
  Append(logs, [sar_id |-> sar_id, rules_triggered |-> rules_triggered,
                llm_prompt |-> llm_prompt, llm_response |-> llm_response])

\* faulty variant: only the amount column is required
MissingRequired_amountOnly(t) == ~({"amount"} \subseteq t.columns)

\* not required_cols.issubset(df.columns)
MissingRequired(t) ==
  ~({"customer_id", "amount", "transaction_date"} \subseteq t.columns)

\* faulty variant: every insert is committed on its own
AfterFailure_autocommit(before, written) == written

\* with engine.begin(): an exception inside the block rolls back what the
\* block has written
AfterFailure(before, written) == before

\* how import_csv answers: ValueError is 400, any other exception 500
ImportStatus(raised) ==
  IF raised = "" THEN 200 ELSE IF raised = "ValueError" THEN 400 ELSE 500

\* the two tables the transaction block writes
Tables(cases, txs) == [sar_cases |-> cases, tx_table |-> txs]

\* the tables after the first k - 1 inserts of the block
Written(k, case, txs) ==
  Tables(IF k > 1 THEN Append(sar_cases, case) ELSE sar_cases,
         tx_table \o SubSeq(txs, 1, k - 2))

ImportRequest(file, fail_at, raised, value) ==
  [op |-> "import_csv", file |-> file, fail_at |-> fail_at,
   status |-> ImportStatus(raised), error |-> raised, value |-> value]

NoValue == [case_id |-> 0, risk_score |-> 0, risk_level |-> "", tx_count |-> 0,
            triggered_rules |-> <<>>]

MaxImports == 1

(* POST /import-csv: import_csv and process_csv_upload.  fail_at names the *)
(* insert of the transaction block that raises (0: none does).             *)
ImportCsvOf(file, fail_at) ==
  IF ~file.parses
    THEN /\ calls' = <<"read_csv">>
         /\ requests' = Append(requests, ImportRequest(file, fail_at, "ValueError", NoValue))
         /\ UNCHANGED <<sar_cases, tx_table, audit_logs>>
  ELSE IF MissingRequired(file.table)
    THEN /\ calls' = <<"read_csv", "required_cols">>
         /\ requests' = Append(requests, ImportRequest(file, fail_at, "ValueError", NoValue))
         /\ UNCHANGED <<sar_cases, tx_table, audit_logs>>
  ELSE IF ModeRaises(file.table)
    THEN /\ calls' = <<"read_csv", "required_cols", "mode">>
         /\ requests' = Append(requests, ImportRequest(file, fail_at, "KeyError", NoValue))
         /\ UNCHANGED <<sar_cases, tx_table, audit_logs>>
  ELSE
    \E out \in {evaluate_risk_model(file.table)} :
      IF out.raised
        THEN /\ calls' = <<"read_csv", "required_cols", "mode", "evaluate_risk_model">>
             /\ requests' =
                  Append(requests, ImportRequest(file, fail_at, "AttributeError", NoValue))
             /\ UNCHANGED <<sar_cases, tx_table, audit_logs>>
        ELSE
          \E new_case_id \in {Len(sar_cases) + 1} :
          \E case \in {NewCsvCase(new_case_id, 1, CustomerIdOf(file.table), "upload.csv",
                                  out.result, out.df.rows)},
             txs \in {NewTransactions(Len(tx_table), new_case_id, out.df.rows)} :
            IF fail_at > 0 /\ fail_at <= 1 + Len(txs)
              THEN \E db \in {AfterFailure(Tables(sar_cases, tx_table),
                                           Written(fail_at, case, txs))} :
                     /\ sar_cases' = db.sar_cases
                     /\ tx_table' = db.tx_table
                     /\ calls' = <<"read_csv", "required_cols", "mode",
                                   "evaluate_risk_model", "engine.begin">>
                     /\ requests' =
                          Append(requests,
                                 ImportRequest(file, fail_at, "DBAPIError", NoValue))
                     /\ UNCHANGED audit_logs
              ELSE /\ sar_cases' = Append(sar_cases, case)
                   /\ tx_table' = tx_table \o txs
                   /\ audit_logs' =
                        BackendAudit(audit_logs, new_case_id, out.result.triggered_rules,
                                     "CSV Upload & Risk Scoring",
                                     <<"Uploaded ", Len(out.df.rows),
                                       " transactions. Risk Score: ", out.result.score>>)
                   /\ calls' = <<"read_csv", "required_cols", "mode",
                                 "evaluate_risk_model", "engine.begin", "save_audit_log">>
                   /\ requests' =
                        Append(requests,
                               ImportRequest(file, fail_at, "",
                                 [case_id |-> new_case_id,
                                  risk_score |-> out.result.score,
                                  risk_level |-> out.result.level,
                                  tx_count |-> Len(out.df.rows),
                                  triggered_rules |-> out.result.triggered_rules]))

MaxImportRows == 2

t_C1 == <<"C", "1">>
t_C2 == <<"C", "2">>

\* rows of an uploaded file that has all four columns
ImportRowInputs ==
  {[customer_id |-> Text(t_C1), amount |-> Num(9500),
    transaction_date |-> Text(d_20240101), country |-> Text(t_CA)],
   [customer_id |-> NaN, amount |-> Text(t_9comma500),
    transaction_date |-> Text(d_20240101), country |-> NaN],
   [customer_id |-> Text(t_C2), amount |-> Num(9000),
    transaction_date |-> Text(d_20240230), country |-> Text(t_US)]}

\* the columns a file may have: all four, or one of them missing
ImportColumnInputs ==
  {{"customer_id", "amount", "transaction_date", "country"},
   {"customer_id", "amount", "transaction_date"},
   {"amount", "transaction_date", "country"},
   {"customer_id", "transaction_date", "country"},
   {"customer_id", "amount", "country"}}

\* the row r of a file that has only these columns
Project(r, columns) == [c \in columns |-> r[c]]

\* an upload: bytes read_csv cannot read, or a table
ImportFiles ==
  {[parses |-> FALSE, table |-> NoTable]}
  \cup {[parses |-> TRUE,
         table |-> Table(columns, [i \in 1..Len(rows) |-> Project(rows[i], columns)])] :
          columns \in ImportColumnInputs,
          rows \in SeqsUpTo(ImportRowInputs, MaxImportRows)}

\* the requests handled so far that were of this kind
CountOps(op) == Cardinality({i \in 1..Len(requests) : requests[i].op = op})

ImportCsv ==
  /\ CountOps("import_csv") < MaxImports
  /\ \E file \in ImportFiles :
       \E fail_at \in 0..(IF file.parses THEN 1 + Len(file.table.rows) ELSE 0) :
         ImportCsvOf(file, fail_at)
  /\ UNCHANGED <<ruleVars, riskVars, session_state, concVars>>

InitImport ==
  /\ InitNoCase
  /\ InitNoUpload

NextImport == ImportCsv

SpecImport == InitImport /\ [][NextImport]_vars

(* ---------------------------------------------------------------------- *)
(* Oracles for the API, stated from the request that was sent              *)
(* ---------------------------------------------------------------------- *)
\* the request handled last
LastRequest(reqs) == reqs[Len(reqs)]

\* the uploaded table lacks customer_id, amount or transaction_date
LacksMandatory(file) ==
  \E c \in {"customer_id", "amount", "transaction_date"} : c \notin file.table.columns

\* the uploaded table has rows and no customer id in any of them
NoCustomerId(file) ==
  /\ Len(file.table.rows) > 0
  /\ \A i \in 1..Len(file.table.rows) : file.table.rows[i].customer_id = NaN

(* C21: a CSV import whose table lacks customer_id, amount or              *)
(* transaction_date is rejected with ValueError (HTTP 400) before the      *)
(* scorer runs, and stores no case, no transaction row and no audit entry; *)
(* a missing country column never makes an import fail.                    *)
C21_MissingColumns ==
  [][ (requests' # requests /\ LastRequest(requests').op = "import_csv"
         /\ LastRequest(requests').file.parses)
      => /\ LacksMandatory(LastRequest(requests').file)
              => /\ LastRequest(requests').status = 400
                 /\ LastRequest(requests').error = "ValueError"
                 /\ \A k \in 1..Len(calls') : calls'[k] # "evaluate_risk_model"
                 /\ sar_cases' = sar_cases
                 /\ tx_table' = tx_table
                 /\ audit_logs' = audit_logs
         /\ ( /\ ~LacksMandatory(LastRequest(requests').file)
              /\ "country" \notin LastRequest(requests').file.table.columns
              /\ ~NoCustomerId(LastRequest(requests').file)
              /\ LastRequest(requests').fail_at = 0 )
              => /\ LastRequest(requests').status = 200
                 /\ Len(sar_cases') = Len(sar_cases) + 1
    ]_vars

\* a file with rows and without the transaction_date column was rejected
C21_Witness ==
  /\ Len(requests) > 0
  /\ LastRequest(requests).op = "import_csv"
  /\ LastRequest(requests).file.parses
  /\ LastRequest(requests).file.table.columns = {"customer_id", "amount", "country"}
  /\ Len(LastRequest(requests).file.table.rows) > 0
  /\ LastRequest(requests).status = 400
  /\ sar_cases = <<>> /\ tx_table = <<>> /\ audit_logs = <<>>

(* C22: every flow that stores a case writes exactly one audit-log entry   *)
(* for it, after the case record was stored; once the flow has ended, no   *)
(* stored case is without its audit entry.                                 *)
C22_CaseHasAudit ==
  \A i \in 1..Len(sar_cases) :
    Cardinality({k \in 1..Len(audit_logs) : audit_logs[k].sar_id = sar_cases[i].id}) = 1

\* what a scorer working on the uploaded table reports, stated from the file:
\* the rows at or above 9000 and the rows that are not domestic
FileHighRows(file) ==
  {i \in 1..Len(file.table.rows) : AmountValue(file.table.rows[i].amount) >= 9000}

FileForeignRows(file) ==
  IF "country" \in file.table.columns
    THEN {i \in 1..Len(file.table.rows) :
            file.table.rows[i].country \notin {Text(t_US), Text(t_us)}}
    ELSE {}

FileScore(file) ==
  Min(100, TierOf(VolumeOf(file.table.rows)) + 5 * Cardinality(FileHighRows(file))
             + 10 * Cardinality(FileForeignRows(file)))

\* the transaction rows stored for the case
RowsOfCase(txs, case_id) == {k \in 1..Len(txs) : txs[k].case_id = case_id}

(* C23: a successful CSV import stores exactly one new case, in status     *)
(* Draft, carrying the scorer's score, level and triggered_rules, and one  *)
(* transaction row per table row, each linked to that case; the case and   *)
(* its rows are written in one atomic transaction, so when an insert fails *)
(* neither the case nor any of its rows is stored.                         *)
C23_AtomicImport ==
  [][ (requests' # requests /\ LastRequest(requests').op = "import_csv")
      => IF LastRequest(requests').status = 200
           THEN /\ Len(sar_cases') = Len(sar_cases) + 1
                /\ SubSeq(sar_cases', 1, Len(sar_cases)) = sar_cases
                /\ LastRequest(sar_cases').status = "Draft"
                /\ LastRequest(sar_cases').id = LastRequest(requests').value.case_id
                /\ \A i \in 1..Len(sar_cases) :
                     sar_cases[i].id # LastRequest(sar_cases').id
                /\ LastRequest(sar_cases').kyc_data.risk_score
                     = FileScore(LastRequest(requests').file)
                /\ LastRequest(sar_cases').kyc_data.risk_level
                     = LevelOf(FileScore(LastRequest(requests').file))
                /\ LastRequest(sar_cases').kyc_data.triggered_rules
                     = LastRequest(requests').value.triggered_rules
                /\ Len(tx_table') = Len(tx_table)
                     + Len(LastRequest(requests').file.table.rows)
                /\ SubSeq(tx_table', 1, Len(tx_table)) = tx_table
                /\ \A k \in (Len(tx_table) + 1)..Len(tx_table') :
                     tx_table'[k].case_id = LastRequest(sar_cases').id
           ELSE /\ sar_cases' = sar_cases
                /\ tx_table' = tx_table
    ]_vars

\* the second of two inserts into transactions failed: nothing was stored
C23_Witness ==
  /\ Len(requests) > 0
  /\ LastRequest(requests).op = "import_csv"
  /\ LastRequest(requests).fail_at = 3
  /\ LastRequest(requests).status = 500
  /\ LastRequest(requests).error = "DBAPIError"
  /\ sar_cases = <<>>
  /\ tx_table = <<>>


(* ---------------------------------------------------------------------- *)
(* Concurrent calls of evaluate_rules and evaluate_risk_model.  Each call  *)
(* runs one statement group at a time and the scheduler may switch between *)
(* the calls after any of them.                                            *)
(* ---------------------------------------------------------------------- *)
Callers == {"t1", "t2"}

\* faulty variant: the locals are module-level names, one set for every call
Frame_shared(p) == "t1"

\* triggered_rules, errors, warnings, score, metrics are assigned inside the
\* function body: every call has its own
Frame(p) == p

NoFrame == [st |-> Locals0, metrics |-> NoRisk.metrics, triggered_rules |-> <<>>]

\* a call that has not started: the function, its argument, where it is
Call(fn, d, t) ==
  [fn |-> fn, data |-> d, df |-> t, df0 |-> t, k |-> 0, pc |-> "ready",
   overlapped |-> FALSE, rule_result |-> NoResult, risk_result |-> NoRisk]

\* another call is between its first statement and its return
OthersRunning(p) == \E q \in Callers \ {p} : callers[q].pc = "running"

\* the call p moves to position k with outcome pc
Moved(p, k, to) ==
  [callers[p] EXCEPT !.k = k, !.pc = to,
                     !.overlapped = @ \/ OthersRunning(p)]

\* evaluate_rules, lines 68-76: the locals are created
RulesEnter(p) ==
  /\ callers[p].fn = "evaluate_rules"
  /\ callers[p].pc = "ready"
  /\ frames' = [frames EXCEPT ![Frame(p)].st = Locals0]
  /\ callers' = [callers EXCEPT ![p] = Moved(p, 1, "running")]

\* evaluate_rules, lines 78-157: the next check
RulesCheck(p) ==
  /\ callers[p].fn = "evaluate_rules"
  /\ callers[p].pc = "running"
  /\ callers[p].k \in 1..13
  /\ \E st \in {Check(callers[p].k, frames[Frame(p)].st, callers[p].data)} :
       /\ frames' = [frames EXCEPT ![Frame(p)].st = st]
       /\ callers' = [callers EXCEPT ![p] =
                        Moved(p, callers[p].k + 1,
                              IF st.raised THEN "raised" ELSE "running")]

\* evaluate_rules, lines 159-167: the dict is built from the locals
RulesReturn(p) ==
  /\ callers[p].fn = "evaluate_rules"
  /\ callers[p].pc = "running"
  /\ callers[p].k = 14
  /\ callers' = [callers EXCEPT ![p] =
                   [Moved(p, 15, "returned") EXCEPT
                      !.rule_result = ResultOf(frames[Frame(p)].st)]]
  /\ UNCHANGED frames

\* evaluate_risk_model, lines 178-179: metrics = {}, triggered_rules = []
RiskEnter(p) ==
  /\ callers[p].fn = "evaluate_risk_model"
  /\ callers[p].pc = "ready"
  /\ frames' = [frames EXCEPT ![Frame(p)].metrics = NoRisk.metrics,
                              ![Frame(p)].triggered_rules = <<>>]
  /\ callers' = [callers EXCEPT ![p] = Moved(p, 1, "running")]

\* evaluate_risk_model, lines 182-184: the columns of the argument are converted
RiskCoerce(p) ==
  /\ callers[p].fn = "evaluate_risk_model"
  /\ callers[p].pc = "running"
  /\ callers[p].k = 1
  /\ IF "amount" \notin callers[p].df.columns
       THEN callers' = [callers EXCEPT ![p] = Moved(p, 2, "raised")]
       ELSE callers' = [callers EXCEPT ![p] =
                          [Moved(p, 2, "running") EXCEPT !.df = Coerce(@)]]
  /\ UNCHANGED frames

\* evaluate_risk_model, lines 187-210: the metrics and the triggers
RiskMeasure(p) ==
  /\ callers[p].fn = "evaluate_risk_model"
  /\ callers[p].pc = "running"
  /\ callers[p].k = 2
  /\ IF StrAccessorRaises(callers[p].df)
       THEN /\ callers' = [callers EXCEPT ![p] = Moved(p, 3, "raised")]
            /\ UNCHANGED frames
       ELSE \E r \in {RiskResult(callers[p].df)} :
              /\ frames' = [frames EXCEPT
                              ![Frame(p)].metrics = r.metrics,
                              ![Frame(p)].triggered_rules = r.triggered_rules]
              /\ callers' = [callers EXCEPT ![p] = Moved(p, 3, "running")]

\* evaluate_risk_model, lines 212-233: the score, the level and the dict
RiskScore(p) ==
  /\ callers[p].fn = "evaluate_risk_model"
  /\ callers[p].pc = "running"
  /\ callers[p].k = 3
  /\ \E m \in {frames[Frame(p)].metrics} :
     \E s \in {risk_score(base_score(m.total_volume, m.high_value_count,
                                     m.cross_border_count))} :
       callers' = [callers EXCEPT ![p] =
                     [Moved(p, 4, "returned") EXCEPT
                        !.risk_result =
                           [score |-> s, level |-> risk_level(s), metrics |-> m,
                            triggered_rules |-> frames[Frame(p)].triggered_rules]]]
  /\ UNCHANGED frames

\* a complete case with a full narrative, a case with errors, a case whose
\* transaction has no type
ConcCaseInputs ==
  {[FormData("Jane Doe", Str(d_20231231), Str(d_20240101),
             FilingThresholdIdentified, <<Tx("cash", 9500)>>)
      EXCEPT !.narrative = Padded(t_complete, MinNarrativeLen)],
   FormData("", Str(<<>>), Str(d_20231231), 0, <<>>),
   FormData("Jane Doe", Str(d_20231231), Str(d_20240101),
            FilingThresholdIdentified, <<TxNoType(9500)>>)}

ConcTableInputs ==
  {Table({"amount", "transaction_date", "country"},
         <<Row(Text(t_9comma500), Text(d_20240101), Text(t_CA)),
           Row(Num(9000), Text(d_20240101), Text(t_US))>>),
   Table({"amount", "transaction_date", "country"}, <<Row(Num(9500), NaN, NaN)>>),
   Table({"amount", "transaction_date"},
         <<WithoutCountry(Row(Text(t_9500), Text(d_20240230), NaN)),
           WithoutCountry(Row(Num(9500), Text(d_20240101), NaN)),
           WithoutCountry(Row(Num(9999), Text(d_20240101), NaN))>>)}

ConcCalls ==
  {Call("evaluate_rules", d, NoTable) : d \in ConcCaseInputs}
  \cup {Call("evaluate_risk_model", NoData, t) : t \in ConcTableInputs}

InitConcurrent ==
  /\ callers \in [Callers -> ConcCalls]
  /\ frames = [p \in Callers |-> NoFrame]
  /\ data = NoData /\ pc = "ready" /\ rule_result = NoResult /\ score = 0
  /\ sar_cases = <<>> /\ audit_logs = <<>> /\ session_state = NoSession
  /\ calls = <<>> /\ tx_table = <<>> /\ requests = <<>>
  /\ InitNoUpload

NextConcurrent ==
  \E p \in Callers :
    /\ \/ RulesEnter(p)
       \/ RulesCheck(p)
       \/ RulesReturn(p)
       \/ RiskEnter(p)
       \/ RiskCoerce(p)
       \/ RiskMeasure(p)
       \/ RiskScore(p)
    /\ UNCHANGED <<ruleVars, riskVars, appVars>>

SpecConcurrent == InitConcurrent /\ [][NextConcurrent]_vars

\* what the call of p gives when nothing else runs
AloneRules(p) == RunChecks(callers[p].data)

AloneRisk(p) == evaluate_risk_model(callers[p].df0)

(* C24: concurrent calls of evaluate_rules and evaluate_risk_model, each   *)
(* on its own input, end as they end when run alone, whatever the          *)
(* interleaving: the same dict is returned, or the same call raises.       *)
C24_Isolated ==
  \A p \in DOMAIN callers :
    /\ callers[p].pc \in {"returned", "raised"}
       => IF callers[p].fn = "evaluate_rules"
            THEN /\ AloneRules(p).raised = (callers[p].pc = "raised")
                 /\ callers[p].pc = "returned"
                      => callers[p].rule_result = ResultOf(AloneRules(p))
            ELSE /\ AloneRisk(p).raised = (callers[p].pc = "raised")
                 /\ callers[p].df = AloneRisk(p).df
                 /\ callers[p].pc = "returned"
                      => callers[p].risk_result = AloneRisk(p).result

\* two overlapping calls of the rule engine, on different cases, have both
\* returned
C24_Witness ==
  /\ DOMAIN callers = Callers
  /\ \A p \in Callers : callers[p].pc = "returned" /\ callers[p].overlapped
  /\ callers["t1"].fn = "evaluate_rules"
  /\ callers["t2"].fn = "evaluate_rules"
  /\ callers["t1"].rule_result.confidence_label = "HIGH"
  /\ callers["t2"].rule_result.confidence_label = "LOW"


(* C25: the score evaluate_rules ends with is always between 0 and 14;    *)
(* when the narrative is absent or empty it is at most 9, so a case        *)
(* evaluated without a narrative is never labelled HIGH.                   *)
C25_ScoreBounds ==
  Returned =>
    /\ score \in 0..14
    /\ ~NarrativeGiven(data)
         => /\ score <= 9
            /\ rule_result.confidence_label # "HIGH"

\* a complete case with a structuring flag and no narrative reaches 9
C25_Witness ==
  /\ Returned
  /\ ~data.narrative.present
  /\ score = 9
  /\ InSeq(RULE_10, rule_result.triggered_rules)
  /\ rule_result.confidence_label = "MEDIUM"


\* the place of a trigger entry in the order high-value, structuring,
\* cross-border, read from its leading text
TriggerRank(entry) ==
  IF entry[1] = HighValueRule(0)[1] THEN 1
  ELSE IF entry[1] = StructuringRule[1] THEN 2
  ELSE 3

(* C26: in every result of evaluate_risk_model the structuring trigger     *)
(* comes with the high-value trigger: high_value_count is at least 3, the  *)
(* high-value trigger stands before it and the score is at least 15; and   *)
(* triggered_rules is always in the order high-value, structuring,         *)
(* cross-border.                                                           *)
C26_TriggerOrder ==
  \A c \in 1..Len(risk_results) :
    /\ InSeq(StructuringRule, risk_results[c].triggered_rules)
         => /\ risk_results[c].metrics.high_value_count >= 3
            /\ risk_results[c].score >= 15
            /\ \E i, j \in 1..Len(risk_results[c].triggered_rules) :
                 /\ i < j
                 /\ risk_results[c].triggered_rules[i]
                      = HighValueRule(risk_results[c].metrics.high_value_count)
                 /\ risk_results[c].triggered_rules[j] = StructuringRule
    /\ \A i, j \in 1..Len(risk_results[c].triggered_rules) :
         i < j => TriggerRank(risk_results[c].triggered_rules[i])
                    < TriggerRank(risk_results[c].triggered_rules[j])

\* three foreign rows of 9500 raise all three triggers
C26_Witness ==
  /\ RiskReturned
  /\ risk_results[1].triggered_rules
       = <<HighValueRule(3), StructuringRule, CrossBorderRule(3)>>
  /\ risk_results[1].score = 55


\* the rows of the uploaded table whose country field is empty
MissingCountryRows ==
  IF HasCountry
    THEN {i \in 1..Len(df0.rows) : df0.rows[i].country = NaN}
    ELSE {}

(* C27: when the table has a country column, a row whose country is        *)
(* missing is counted as cross-border by evaluate_risk_model, exactly like *)
(* a row with a foreign country, and adds 10 to the score before the cap.  *)
C27_MissingCountry ==
  (risk_pc # "ready" /\ MissingCountryRows # {})
    => /\ RiskReturned
       /\ MissingCountryRows \subseteq ForeignRows
       /\ \A c \in 1..Len(risk_results) :
            /\ risk_results[c].metrics.cross_border_count = Cardinality(ForeignRows)
            /\ risk_results[c].score = ExpectedScore


(* ---------------------------------------------------------------------- *)
(* The status operations: the API handlers of backend/routers/cases.py and *)
(* the two buttons of src/app.py that change a stored case                 *)
(* ---------------------------------------------------------------------- *)
\* SELECT * FROM sar_cases WHERE id = :sar_id  (a row, or None)
CaseExists(cases, sar_id) == \E i \in 1..Len(cases) : cases[i].id = sar_id

CaseById(cases, sar_id) == cases[CHOOSE i \in 1..Len(cases) : cases[i].id = sar_id]

\* faulty variant: only a case under review can be approved
approve_sar_guarded(cases, sar_id) ==
  [i \in 1..Len(cases) |->
     IF cases[i].id = sar_id /\ cases[i].status \in {"Review", "Pending Review"}
       THEN [cases[i] EXCEPT !.status = "Approved"]
       ELSE cases[i]]

\* UPDATE sar_cases SET status = 'Approved' WHERE id = :sar_id
approve_sar(cases, sar_id) ==
  [i \in 1..Len(cases) |->
     IF cases[i].id = sar_id
       THEN [cases[i] EXCEPT !.status = "Approved"]
       ELSE cases[i]]

\* faulty variant: the narrative is stored and the status is left alone
update_generated_narrative_keepStatus(cases, sar_id, narrative_text) ==
  [i \in 1..Len(cases) |->
     IF cases[i].id = sar_id
       THEN [cases[i] EXCEPT !.generated_narrative = narrative_text]
       ELSE cases[i]]

\* UPDATE sar_cases SET generated_narrative = :narrative, status = 'Review'
update_generated_narrative(cases, sar_id, narrative_text) ==
  [i \in 1..Len(cases) |->
     IF cases[i].id = sar_id
       THEN [cases[i] EXCEPT !.generated_narrative = narrative_text,
                             !.status = "Review"]
       ELSE cases[i]]

\* UPDATE sar_cases SET edited_narrative = :edited_text, status = 'Pending Review'
update_edited_narrative(cases, sar_id, edited_text) ==
  [i \in 1..Len(cases) |->
     IF cases[i].id = sar_id
       THEN [cases[i] EXCEPT !.edited_narrative = edited_text,
                             !.status = "Pending Review"]
       ELSE cases[i]]

\* the user row get_current_user returns, with or without a role attribute
User(has_role, role) == [has_role |-> has_role, role |-> role]

UserInputs ==
  {User(FALSE, ""), User(TRUE, "Analyst"), User(TRUE, "reviewer"),
   User(TRUE, "Reviewer"), User(TRUE, "MLRO"), User(TRUE, "Compliance Head")}

\* getattr(current_user, 'role', 'Analyst')
RoleOf(user) == IF user.has_role THEN user.role ELSE "Analyst"

\* faulty variant: every caller may approve
Authorized_anyRole(role) == TRUE

\* role in ['Reviewer', 'MLRO', 'Compliance Head']
Authorized(role) == role \in {"Reviewer", "MLRO", "Compliance Head"}

\* one handled request: the operation, its target, the caller, the HTTP
\* status (0 for a button of the app) and the exception that ended it
ReviewRequest(op, case_id, user, status, error) ==
  [op |-> op, case_id |-> case_id, user |-> user, status |-> status,
   error |-> error]

NoUser == User(FALSE, "")

MaxRequests == 2

\* the body of POST /cases/
CasePayload ==
  [kyc |-> [has_full_name |-> TRUE, full_name |-> "Jane Doe"],
   transactions |-> <<>>]

\* POST /cases/  (create_case)
CreateCase ==
  /\ Len(requests) < MaxRequests
  /\ Len(sar_cases) < MaxCases
  /\ \/ \* create_sar_case raises
        /\ requests' = Append(requests,
                              ReviewRequest("create_case", 0, NoUser, 500, "DBAPIError"))
        /\ calls' = <<"create_sar_case">>
        /\ UNCHANGED <<sar_cases, audit_logs>>
     \/ \E new_id \in {Len(sar_cases) + 1} :
          /\ sar_cases' = Append(sar_cases,
                                 NewCase(new_id, 1, CasePayload, "Pending Generation..."))
          /\ audit_logs' = BackendAudit(audit_logs, new_id, "Rule Engine",
                                        "Case Auto-Created", "Status: Draft")
          /\ calls' = <<"create_sar_case", "save_audit_log", "get_case_by_id">>
          /\ requests' = Append(requests,
                                ReviewRequest("create_case", new_id, NoUser, 200, ""))
  /\ UNCHANGED <<ruleVars, riskVars, concVars, session_state, tx_table>>

\* POST /cases/{case_id}/generate_narrative
GenerateNarrative ==
  /\ Len(requests) < MaxRequests
  /\ \E case_id \in 1..(Len(sar_cases) + 1) :
       IF ~CaseExists(sar_cases, case_id)
         THEN /\ requests' = Append(requests,
                                    ReviewRequest("generate_narrative", case_id,
                                                  NoUser, 404, ""))
              /\ calls' = <<"get_case_by_id">>
              /\ UNCHANGED <<sar_cases, audit_logs>>
         ELSE
           \/ \* generate_sar_from_case raises
              /\ audit_logs' = BackendAudit(audit_logs, case_id,
                                            "LLM SAR Generation Failed",
                                            "Generation attempted", "ConnectionError")
              /\ requests' = Append(requests,
                                    ReviewRequest("generate_narrative", case_id,
                                                  NoUser, 500, "ConnectionError"))
              /\ calls' = <<"get_case_by_id", "generate_sar_from_case",
                            "save_audit_log">>
              /\ UNCHANGED sar_cases
           \/ \* update_generated_narrative raises: its transaction rolls back
              /\ audit_logs' = BackendAudit(audit_logs, case_id,
                                            "LLM SAR Generation Failed",
                                            "Generation attempted", "DBAPIError")
              /\ requests' = Append(requests,
                                    ReviewRequest("generate_narrative", case_id,
                                                  NoUser, 500, "DBAPIError"))
              /\ calls' = <<"get_case_by_id", "generate_sar_from_case",
                            "update_generated_narrative", "save_audit_log">>
              /\ UNCHANGED sar_cases
           \/ \E narrative \in LLMOutputs :
                /\ sar_cases' = update_generated_narrative(sar_cases, case_id, narrative)
                /\ audit_logs' = BackendAudit(audit_logs, case_id,
                                              "LLM SAR Generation", "prompt", narrative)
                /\ requests' = Append(requests,
                                      ReviewRequest("generate_narrative", case_id,
                                                    NoUser, 200, ""))
                /\ calls' = <<"get_case_by_id", "generate_sar_from_case",
                              "update_generated_narrative", "save_audit_log">>
  /\ UNCHANGED <<ruleVars, riskVars, concVars, session_state, tx_table>>

\* PUT /cases/{case_id}/approve
ApproveCase ==
  /\ Len(requests) < MaxRequests
  /\ \E case_id \in 1..(Len(sar_cases) + 1), user \in UserInputs :
       IF ~Authorized(RoleOf(user))
         THEN /\ requests' = Append(requests,
                                    ReviewRequest("approve_case", case_id, user, 403, ""))
              /\ calls' = <<>>
              /\ UNCHANGED <<sar_cases, audit_logs>>
         ELSE
           \/ \* approve_sar raises
              /\ requests' = Append(requests,
                                    ReviewRequest("approve_case", case_id, user, 500,
                                                  "DBAPIError"))
              /\ calls' = <<"approve_sar">>
              /\ UNCHANGED <<sar_cases, audit_logs>>
           \/ /\ sar_cases' = approve_sar(sar_cases, case_id)
              /\ audit_logs' = BackendAudit(audit_logs, case_id, "Manual Review",
                                            "User Approved SAR", "Status: Approved")
              /\ requests' = Append(requests,
                                    ReviewRequest("approve_case", case_id, user, 200, ""))
              /\ calls' = <<"approve_sar", "save_audit_log">>
  /\ UNCHANGED <<ruleVars, riskVars, concVars, session_state, tx_table>>


\* src/app.py, reviewer panel: the Approve SAR button
ApproveButton ==
  /\ Len(requests) < MaxRequests
  /\ \E sar_id \in 1..(Len(sar_cases) + 1) :
       \/ \* approve_sar raises
          /\ requests' = Append(requests,
                                ReviewRequest("Approve SAR", sar_id, NoUser, 0,
                                              "DBAPIError"))
          /\ calls' = <<"approve_sar">>
          /\ UNCHANGED sar_cases
       \/ /\ sar_cases' = approve_sar(sar_cases, sar_id)
          /\ requests' = Append(requests,
                                ReviewRequest("Approve SAR", sar_id, NoUser, 0, ""))
          /\ calls' = <<"approve_sar", "st.success">>
  /\ UNCHANGED <<ruleVars, riskVars, concVars, session_state, tx_table, audit_logs>>

\* what the analyst may leave in the text area
EditedTexts == {"narrative A", "edited narrative"}

\* src/app.py, analyst panel: the Submit For Review button, shown once
\* generated_narrative is in the session
SubmitForReview ==
  /\ Len(requests) < MaxRequests
  /\ session_state.has_narrative
  /\ \E edited_text \in EditedTexts :
       \/ \* update_edited_narrative raises
          /\ requests' = Append(requests,
                                ReviewRequest("Submit For Review", session_state.sar_id,
                                              NoUser, 0, "DBAPIError"))
          /\ calls' = <<"update_edited_narrative">>
          /\ UNCHANGED sar_cases
       \/ /\ sar_cases' = update_edited_narrative(sar_cases, session_state.sar_id,
                                                  edited_text)
          /\ requests' = Append(requests,
                                ReviewRequest("Submit For Review", session_state.sar_id,
                                              NoUser, 0, ""))
          /\ calls' = <<"update_edited_narrative", "st.success">>
  /\ UNCHANGED <<ruleVars, riskVars, concVars, session_state, tx_table, audit_logs>>

\* the form of a Generate SAR click that stores a case
StoredForm ==
  FormData("Jane Doe", Str(d_20231231), Str(d_20240101),
           FilingThresholdIdentified, <<>>)

\* the database is empty, or the analyst has just stored one case with the
\* Generate SAR button
InitReview ==
  /\ InitNoUpload
  /\ InitNoCallers
  /\ tx_table = <<>>
  /\ requests = <<>>
  /\ \/ /\ data = NoData /\ pc = "ready" /\ rule_result = NoResult /\ score = 0
        /\ sar_cases = <<>>
        /\ audit_logs = <<>>
        /\ session_state = NoSession
        /\ calls = <<>>
     \/ \E st \in {RunChecks(StoredForm)}, narrative \in LLMOutputs :
          /\ data = StoredForm /\ pc = "returned"
          /\ rule_result = ResultOf(st) /\ score = st.score
          /\ sar_cases = <<NewCase(1, 1, StoredForm, narrative)>>
          /\ audit_logs = <<NewAudit(1, ResultOf(st).triggered_rules, "prompt",
                                     narrative)>>
          /\ session_state = [sar_id |-> 1, has_narrative |-> TRUE,
                              generated_narrative |-> narrative]
          /\ calls = <<"json.loads", "evaluate_rules", "generate_sar_narrative",
                       "create_sar_case", "save_audit_log", "st.success">>

NextReview ==
  \/ CreateCase
  \/ GenerateNarrative
  \/ ApproveCase
  \/ ApproveButton
  \/ SubmitForReview

SpecReview == InitReview /\ [][NextReview]_vars


\* the status of the case sar_id in the table cases
StatusOf(cases, sar_id) == CaseById(cases, sar_id).status

\* the step is a handled request that ended without an exception
Handled(op, reqs, reqs2) ==
  /\ reqs2 # reqs
  /\ LastRequest(reqs2).op = op
  /\ LastRequest(reqs2).error = ""

AllStatuses == {"Draft", "Review", "Pending Review", "Approved"}

(* C28: the status transitions are unguarded.  An approval, by the button  *)
(* or by an authorized API call, leaves the case Approved whatever its     *)
(* status was; storing a generated narrative leaves it in Review and       *)
(* submitting an edited one leaves it in Pending Review, whatever its      *)
(* status was, Approved included.                                          *)
C28_Unguarded ==
  [][ \A sar_id \in 1..Len(sar_cases) :
        /\ ( /\ \/ Handled("Approve SAR", requests, requests')
                \/ /\ Handled("approve_case", requests, requests')
                   /\ LastRequest(requests').status = 200
             /\ LastRequest(requests').case_id = sar_id )
           => StatusOf(sar_cases', sar_id) = "Approved"
        /\ ( /\ Handled("generate_narrative", requests, requests')
             /\ LastRequest(requests').status = 200
             /\ LastRequest(requests').case_id = sar_id )
           => StatusOf(sar_cases', sar_id) = "Review"
        /\ ( /\ Handled("Submit For Review", requests, requests')
             /\ LastRequest(requests').case_id = sar_id )
           => StatusOf(sar_cases', sar_id) = "Pending Review"
    ]_vars

\* a case that was created and approved without any narrative work, and
\* then left Approved again when a narrative was generated for it
C28_Witness ==
  /\ Len(requests) = 2
  /\ requests[1].op = "Approve SAR" /\ requests[1].error = ""
  /\ requests[1].case_id = 1
  /\ requests[2].op = "generate_narrative" /\ requests[2].status = 200
  /\ requests[2].case_id = 1
  /\ Len(sar_cases) = 1
  /\ sar_cases[1].status = "Review"


\* the audit entries written for the approval of a case
ApprovalEntries(logs, sar_id) ==
  {k \in 1..Len(logs) : logs[k].sar_id = sar_id /\ logs[k].llm_prompt = "User Approved SAR"}

\* the position of a call in the calls the last handler made; 0 when absent
CallAt(name) ==
  IF \E k \in 1..Len(calls) : calls[k] = name
    THEN CHOOSE k \in 1..Len(calls) : calls[k] = name
    ELSE 0

(* C29: approval through the API is gated by role.  A caller whose role is *)
(* not Reviewer, MLRO or Compliance Head, a caller without a role          *)
(* attribute included, gets 403, no case changes and no audit entry is     *)
(* written; for an authorized role the case is set to Approved and one     *)
(* approval entry is written to the audit log after that.                  *)
C29_RoleGate ==
  [][ (requests' # requests /\ LastRequest(requests').op = "approve_case")
      => IF /\ LastRequest(requests').user.has_role
            /\ LastRequest(requests').user.role \in {"Reviewer", "MLRO", "Compliance Head"}
           THEN \/ /\ LastRequest(requests').status = 500
                   /\ sar_cases' = sar_cases
                   /\ audit_logs' = audit_logs
                \/ /\ LastRequest(requests').status = 200
                   /\ Len(sar_cases') = Len(sar_cases)
                   /\ \A i \in 1..Len(sar_cases) :
                        sar_cases'[i] =
                          IF sar_cases[i].id = LastRequest(requests').case_id
                            THEN [sar_cases[i] EXCEPT !.status = "Approved"]
                            ELSE sar_cases[i]
                   /\ Len(audit_logs') = Len(audit_logs) + 1
                   /\ SubSeq(audit_logs', 1, Len(audit_logs)) = audit_logs
                   /\ ApprovalEntries(audit_logs', LastRequest(requests').case_id)
                        = ApprovalEntries(audit_logs, LastRequest(requests').case_id)
                            \cup {Len(audit_logs')}
                   /\ calls' = <<"approve_sar", "save_audit_log">>
           ELSE /\ LastRequest(requests').status = 403
                /\ sar_cases' = sar_cases
                /\ audit_logs' = audit_logs
                /\ calls' = <<>>
    ]_vars

\* a user without a role attribute was turned away from a Draft case and an
\* MLRO then approved it
C29_Witness ==
  /\ Len(requests) = 2
  /\ requests[1].op = "approve_case" /\ requests[1].status = 403
  /\ ~requests[1].user.has_role
  /\ requests[1].case_id = 1
  /\ requests[2].op = "approve_case" /\ requests[2].status = 200
  /\ requests[2].user = User(TRUE, "MLRO")
  /\ requests[2].case_id = 1
  /\ Len(sar_cases) = 1
  /\ sar_cases[1].status = "Approved"
  /\ Cardinality(ApprovalEntries(audit_logs, 1)) = 1


(* C30: the outcomes of the generate_narrative endpoint.  For an id that   *)
(* names no case it answers 404 and changes nothing.  When the generation  *)
(* raises, the case keeps its status and its generated_narrative, an       *)
(* "LLM SAR Generation Failed" entry is written to the audit log and the   *)
(* caller gets 500.  On success the narrative is stored and the status     *)
(* becomes Review before the success entry is written.                     *)
C30_GenerateOutcomes ==
  [][ (requests' # requests /\ LastRequest(requests').op = "generate_narrative")
      => IF ~CaseExists(sar_cases, LastRequest(requests').case_id)
           THEN /\ LastRequest(requests').status = 404
                /\ sar_cases' = sar_cases
                /\ audit_logs' = audit_logs
           ELSE /\ Len(audit_logs') = Len(audit_logs) + 1
                /\ SubSeq(audit_logs', 1, Len(audit_logs)) = audit_logs
                /\ LastRequest(audit_logs').sar_id = LastRequest(requests').case_id
                /\ IF LastRequest(requests').error # ""
                     THEN /\ LastRequest(requests').status = 500
                          /\ sar_cases' = sar_cases
                          /\ LastRequest(audit_logs').rules_triggered
                               = "LLM SAR Generation Failed"
                     ELSE /\ LastRequest(requests').status = 200
                          /\ Len(sar_cases') = Len(sar_cases)
                          /\ \A i \in 1..Len(sar_cases) :
                               IF sar_cases[i].id = LastRequest(requests').case_id
                                 THEN /\ sar_cases'[i].status = "Review"
                                      /\ sar_cases'[i].generated_narrative \in LLMOutputs
                                      /\ sar_cases'[i].generated_narrative
                                           = LastRequest(audit_logs').llm_response
                                      /\ sar_cases'[i].edited_narrative
                                           = sar_cases[i].edited_narrative
                                 ELSE sar_cases'[i] = sar_cases[i]
                          /\ LastRequest(audit_logs').rules_triggered
                               = "LLM SAR Generation"
                          /\ CallAt("update_generated_narrative")' > 0
                          /\ CallAt("update_generated_narrative")'
                               < CallAt("save_audit_log")'
    ]_vars

\* a generation that failed on a Draft case, then one that succeeded
C30_Witness ==
  /\ Len(requests) = 2
  /\ requests[1].op = "generate_narrative" /\ requests[1].status = 500
  /\ requests[1].error = "ConnectionError" /\ requests[1].case_id = 1
  /\ requests[2].op = "generate_narrative" /\ requests[2].status = 200
  /\ requests[2].case_id = 1
  /\ Len(sar_cases) = 1
  /\ sar_cases[1].status = "Review"
  /\ sar_cases[1].generated_narrative = "narrative B"
  /\ Len(audit_logs) = 3
  /\ audit_logs[2].rules_triggered = "LLM SAR Generation Failed"
  /\ audit_logs[3].rules_triggered = "LLM SAR Generation"

====
